---- MODULE Spec2Model ----
(***************************************************************************)
(* ArchitectAI: the version ledger (useVersionStore), the processing       *)
(* pipeline (processVersionInBackground driven by App.handleUpdate), the   *)
(* build-plan step (App.handleGenerateBuild) and the write path to the     *)
(* remote repository (saveVersion / createOrUpdateFile).                   *)
(*                                                                         *)
(* Execution is one cooperative JavaScript thread.  An action is one run   *)
(* of code between two suspension points (await of an external call).      *)
(* React state set with a functional updater (setVersions(prev => ...)) is *)
(* the variable itself; values read from a render closure (versions.length *)
(* in createVersion, the version objects handed to the panels) are read    *)
(* from the snapshot `rendered`, refreshed by Render.                      *)
(*                                                                         *)
(* Encodings: a version id `v-${Date.now()}` is the clock value; the       *)
(* diagram id 'main' is 0.  A nullable string (data URL, build plan, error *)
(* message) is a sequence of tokens, so that prefixes can be stripped and  *)
(* added: "" is <<>>, null and undefined are Null.                         *)
(***************************************************************************)
EXTENDS Integers, Sequences, FiniteSets, TLC

VARIABLES
    now,               \* the last reading of Date.now()
    versions,          \* useVersionStore: versions (the ledger)
    rendered,          \* the versions array captured by the last render
    diagrams,          \* App: diagrams (the live sketch)
    activeDiagramId,   \* App: activeDiagramId
    currentProject,    \* App: currentProject (0 = null, else the repository)
    inApp,             \* App: mode # PROJECT_SELECT
    processingStatus,  \* App: processingStatus
    pipes,             \* the handleUpdate invocations, one per created version
    builds,            \* the handleGenerateBuild invocations in flight
    store,             \* the remote repositories: path -> content
    repos,             \* number of repositories created so far
    opened,            \* what the last loadProject call read and returned
    device,            \* DeviceFlowDialog and its completeDeviceFlow call
    storedAuth         \* localStorage: the AUTH key

vars == <<now, versions, rendered, diagrams, activeDiagramId,
          currentProject, inApp, processingStatus, pipes, builds, store, repos,
          opened, device, storedAuth>>

----------------------------------------------------------------------------
(* Bounds *)

MaxVersions == 2
MaxSpecs == 1
MaxBuilds == 1
MaxRepos == 1
\* the last reading of the clock that is followed
MaxClock == MaxVersions + 1

\* versions created in the specification of the build plans (SpecBuild)
MaxBuildVersions == 1
\* turns of the polling loop of completeDeviceFlow that are followed
MaxPolls == 3
\* requests that fail during one loadProject call
MaxLost == 1

Null == <<"null">>

PngPrefix == "data:image/png;base64,"

\* canvas.toDataURL('image/png') results; the handlers take any string
DataUrls == {<<>>, <<PngPrefix, "p">>}
\* refineSketch results: `data:image/png;base64,${part.inlineData.data}`
RefinedImages == {<<PngPrefix, "r">>}
\* texts the build-plan model can answer with
PlanTexts == {<<>>, <<"plan">>}
\* err.message of a failed external call
ErrorMessages == {<<"fail">>}
\* new Error("No valid images to process")
NoValidImages == <<"No valid images to process">>
\* text typed into a spec field of the history panel
Texts == {"x"}

\* processingStatus === null
NoStatus == "null"

\* JavaScript truthiness of a string | null | undefined
Truthy(s) == s # Null /\ s # <<>>

----------------------------------------------------------------------------
(* Sequence helpers *)

MapSeq(s, F(_)) == [i \in 1..Len(s) |-> F(s[i])]

Range(s) == {s[i] : i \in 1..Len(s)}

HasId(vs, id) == \E i \in 1..Len(vs) : vs[i].id = id

\* Array.prototype.find(v => v.id === id): the first element with the id
FindById(vs, id) ==
    vs[CHOOSE i \in 1..Len(vs) :
            /\ vs[i].id = id
            /\ \A j \in 1..(i - 1) : vs[j].id # id]

----------------------------------------------------------------------------
(* useVersionStore *)

\* { ...v, ...updates }
MergeUpdates(v, updates) ==
    [f \in DOMAIN v |-> IF f \in DOMAIN updates THEN updates[f] ELSE v[f]]

\* createVersion's newVersion; len is versions.length of the render closure
NewVersion(len, ds, t) ==
    [id |-> t,
     versionNumber |-> len + 1,
     timestamp |-> t,
     diagrams |-> MapSeq(ds, LAMBDA d : d),
     refinedImage |-> Null,
     specs |-> <<>>,
     buildPlan |-> Null,
     status |-> "pending",
     error |-> Null]

\* a createVersion that puts the new version in front: [newVersion, ...prev]
createVersionInFront(vs, newVersion) == <<newVersion>> \o vs

\* setVersions(prev => [...prev, newVersion])
createVersion(vs, newVersion) == Append(vs, newVersion)

\* an updateVersion that falls back to the latest version when the id is
\* not in the ledger
updateVersionOrLatest(vs, id, updates) ==
    [i \in 1..Len(vs) |->
        IF vs[i].id = id \/ (~HasId(vs, id) /\ i = Len(vs))
        THEN MergeUpdates(vs[i], updates) ELSE vs[i]]

\* setVersions(prev => prev.map(v => v.id === id ? { ...v, ...updates } : v))
updateVersion(vs, id, updates) ==
    [i \in 1..Len(vs) |->
        IF vs[i].id = id THEN MergeUpdates(vs[i], updates) ELSE vs[i]]

----------------------------------------------------------------------------
(* Initial state: the page has loaded, getStoredAuth() found the GitHub     *)
(* credential and no project is stored: the project selector is shown     *)

\* no loadProject call yet
NoOpened == [repo |-> 0, order |-> <<>>, lost |-> {}, versions |-> <<>>]

\* JSON.stringify({ accessToken, user }) under the AUTH key
Auth(accessToken, login) == <<"auth">> \o accessToken \o <<login>>

\* the credential of the user who is signed in when the page is loaded
InitialAuth == Auth(<<"t0">>, "u")

\* DeviceFlowDialog before it is opened: step 'loading', deviceFlow null
\* (interval 0), no completeDeviceFlow call
NoDevice ==
    [open |-> FALSE, step |-> "loading", interval |-> 0, pc |-> "idle",
     pollInterval |-> 0, results |-> <<>>, accessToken |-> Null]

\* App: githubAuth !== null.  It is set from the stored credential when the
\* page is loaded, by handleDeviceFlowSuccess after completeDeviceFlow stored
\* one, and cleared together with it by handleDisconnectGitHub
githubAuth ==
    storedAuth # Null /\ ~(device.open /\ device.step = "success")

InitialDiagrams == <<[id |-> 0, dataUrl |-> Null, type |-> "main"]>>

Init ==
    /\ now = 1
    /\ versions = <<>>
    /\ rendered = <<>>
    /\ diagrams = InitialDiagrams
    /\ activeDiagramId = 0
    /\ currentProject = 0
    /\ inApp = FALSE
    /\ processingStatus = NoStatus
    /\ pipes = <<>>
    /\ builds = <<>>
    /\ store = <<>>
    /\ repos = 0
    /\ opened = NoOpened
    /\ device = NoDevice
    /\ storedAuth = InitialAuth

----------------------------------------------------------------------------
(* The remote repositories (GitHub contents API) and the write path *)

\* `versions/${id}/diagrams/${n}.png`, `versions/${id}/refined/refined.png`,
\* `versions/${id}/version.json`, 'specs/latest-specs.json',
\* `specs/v${n}.md`, '.architectai/project.json' of repository repo
Path(repo, kind, vid, n) == [repo |-> repo, kind |-> kind, vid |-> vid, n |-> n]

Exists(st, path) == path \in DOMAIN st

\* the blob sha of a file: a fingerprint of its content
ShaOf(st, path) == st[path]

PutFile(st, path, content) ==
    [q \in DOMAIN st \cup {path} |-> IF q = path THEN content ELSE st[q]]

\* dataUrl.replace(/^data:image\/\w+;base64,/, '')
StripDataUrl(s) == IF Len(s) > 0 /\ s[1] = PngPrefix THEN Tail(s) ELSE s

\* btoa(unescape(encodeURIComponent(content))) of a text file
Btoa(text) == [base64 |-> text]

\* saveVersion: diagramFiles, the names of the diagrams with a truthy dataUrl
DiagramFiles(version) ==
    MapSeq(SelectSeq(version.diagrams, LAMBDA d : Truthy(d.dataUrl)),
           LAMBDA d : d.id)

\* saveVersion: versionMeta
VersionMeta(version) ==
    [id |-> version.id,
     versionNumber |-> version.versionNumber,
     timestamp |-> version.timestamp,
     status |-> IF version.status = "error" THEN "error" ELSE "complete",
     diagramFiles |-> DiagramFiles(version),
     refinedFile |-> IF Truthy(version.refinedImage) THEN <<"refined.png">> ELSE Null,
     specs |-> version.specs,
     buildPlan |-> version.buildPlan]

\* saveVersion: the project metadata written last
ProjectMeta(repo, version, t) ==
    [projectId |-> repo, latestVersionId |-> version.id]

\* a saveVersion that writes version.json before the images it names
SavePlanMetaFirst(version) ==
    <<[kind |-> "version.json", n |-> 0, content |-> VersionMeta(version)]>>
    \o MapSeq(SelectSeq(version.diagrams, LAMBDA d : Truthy(d.dataUrl)),
              LAMBDA d : [kind |-> "diagram", n |-> d.id,
                          content |-> StripDataUrl(d.dataUrl)])
    \o (IF Truthy(version.refinedImage)
        THEN <<[kind |-> "refined", n |-> 0,
                content |-> StripDataUrl(version.refinedImage)]>>
        ELSE <<>>)
    \o (IF Len(version.specs) > 0
        THEN <<[kind |-> "latest-specs", n |-> 0, content |-> version.specs]>>
        ELSE <<>>)
    \o (IF Truthy(version.buildPlan)
        THEN <<[kind |-> "build-plan", n |-> version.versionNumber,
                content |-> version.buildPlan]>>
        ELSE <<>>)
    \o <<[kind |-> "project.json", n |-> 0, content |-> Null]>>

\* saveVersion: its createOrUpdateFile calls, in order: the file and the
\* content argument (the project metadata is built when its call is reached)
SavePlan(version) ==
    MapSeq(SelectSeq(version.diagrams, LAMBDA d : Truthy(d.dataUrl)),
           LAMBDA d : [kind |-> "diagram", n |-> d.id,
                       content |-> StripDataUrl(d.dataUrl)])
    \o (IF Truthy(version.refinedImage)
        THEN <<[kind |-> "refined", n |-> 0,
                content |-> StripDataUrl(version.refinedImage)]>>
        ELSE <<>>)
    \o <<[kind |-> "version.json", n |-> 0, content |-> VersionMeta(version)]>>
    \o (IF Len(version.specs) > 0
        THEN <<[kind |-> "latest-specs", n |-> 0, content |-> version.specs]>>
        ELSE <<>>)
    \o (IF Truthy(version.buildPlan)
        THEN <<[kind |-> "build-plan", n |-> version.versionNumber,
                content |-> version.buildPlan]>>
        ELSE <<>>)
    \o <<[kind |-> "project.json", n |-> 0, content |-> Null]>>

\* the path of one createOrUpdateFile call of saveVersion
SavePath(repo, version, w) ==
    Path(repo, w.kind,
         IF w.kind \in {"diagram", "refined", "version.json"} THEN version.id ELSE 0,
         w.n)

\* createOrUpdateFile: body.content (isBase64 only for the two image kinds)
SaveContent(repo, version, w, t) ==
    CASE w.kind \in {"diagram", "refined"} -> w.content
      [] w.kind = "project.json" -> Btoa(ProjectMeta(repo, version, t))
      [] OTHER -> Btoa(w.content)

\* a createOrUpdateFile that returns without a PUT for the base64 contents
createOrUpdateFileTextOnly(st, path, content) ==
    IF path.kind \in {"diagram", "refined"} THEN st
    ELSE PutFile(st, path, content)

\* createOrUpdateFile(path, content) when nothing else writes between its GET
\* and its PUT: the PUT carries the sha the GET found, if any, and is accepted
createOrUpdateFile(st, path, content) == PutFile(st, path, content)

\* the store after the first j createOrUpdateFile calls of saveVersion
RECURSIVE SaveWrites(_, _, _, _, _)
SaveWrites(st, repo, version, j, t) ==
    IF j = 0
    THEN st
    ELSE LET w == SavePlan(version)[j]
         IN  createOrUpdateFile(SaveWrites(st, repo, version, j - 1, t),
                                SavePath(repo, version, w),
                                SaveContent(repo, version, w, t))

----------------------------------------------------------------------------
(* The read path: loadVersions *)

\* the directories the listing of versions/ shows: item.name
Dirs(st, repo) ==
    {path.vid : path \in {q \in DOMAIN st :
        q.repo = repo /\ q.kind \in {"diagram", "refined", "version.json"}}}

\* the orders in which the listing can show a set of directories
Orders(S) ==
    {o \in [1..Cardinality(S) -> S] :
        \A i, j \in 1..Cardinality(S) : i # j => o[i] # o[j]}

\* response.ok of a GET: the file exists and the request is not one of the
\* lost ones.  A lost request of a text file also stands for a content
\* JSON.parse rejects: both end in the same catch
Readable(st, lost, path) == path \in DOMAIN st /\ path \notin lost

\* getFileContent: decodeURIComponent(escape(atob(data.content)))
getFileContent(st, path) == st[path].base64

\* getFileAsBase64: `data:image/png;base64,${data.content...}`
getFileAsBase64(st, path) == <<PngPrefix>> \o st[path]

\* the null a failed getFileAsBase64 leaves in the diagrams of loadVersions
NoDiagram == [id |-> -1, dataUrl |-> Null, type |-> "none"]

\* the version pushed for directory name when the diagrams that could not
\* be fetched are not filtered out of the result
LoadVersionKeepNull(st, lost, repo, name) ==
    LET versionMeta == getFileContent(st, Path(repo, "version.json", name, 0))
        refinedPath == Path(repo, "refined", name, 0)
        files == versionMeta.diagramFiles
    IN  [id |-> versionMeta.id,
         versionNumber |-> versionMeta.versionNumber,
         timestamp |-> versionMeta.timestamp,
         diagrams |->
            [i \in 1..Len(files) |->
                LET filePath == Path(repo, "diagram", name, files[i])
                IN  IF Readable(st, lost, filePath)
                    THEN [id |-> files[i],
                          dataUrl |-> getFileAsBase64(st, filePath),
                          type |-> IF i = 1 THEN "main" ELSE "sub"]
                    ELSE NoDiagram],
         refinedImage |->
            IF Truthy(versionMeta.refinedFile) /\ Readable(st, lost, refinedPath)
            THEN getFileAsBase64(st, refinedPath) ELSE Null,
         specs |-> versionMeta.specs,
         buildPlan |-> versionMeta.buildPlan,
         status |-> versionMeta.status,
         error |-> Null]

\* loadVersions: the version pushed for directory name, whose version.json
\* is readable
LoadVersion(st, lost, repo, name) ==
    LET versionMeta == getFileContent(st, Path(repo, "version.json", name, 0))
        refinedPath == Path(repo, "refined", name, 0)
        files == versionMeta.diagramFiles
        loadedDiagrams ==
            [i \in 1..Len(files) |->
                LET filePath == Path(repo, "diagram", name, files[i])
                IN  IF Readable(st, lost, filePath)
                    THEN [id |-> files[i],
                          dataUrl |-> getFileAsBase64(st, filePath),
                          type |-> IF i = 1 THEN "main" ELSE "sub"]
                    ELSE NoDiagram]
    IN  [id |-> versionMeta.id,
         versionNumber |-> versionMeta.versionNumber,
         timestamp |-> versionMeta.timestamp,
         diagrams |-> SelectSeq(loadedDiagrams, LAMBDA d : d # NoDiagram),
         refinedImage |->
            IF Truthy(versionMeta.refinedFile) /\ Readable(st, lost, refinedPath)
            THEN getFileAsBase64(st, refinedPath) ELSE Null,
         specs |-> versionMeta.specs,
         buildPlan |-> versionMeta.buildPlan,
         status |-> versionMeta.status,
         error |-> Null]

\* loadVersions: the versions array before the sort, the directories taken
\* in the order of the listing; a directory whose version.json cannot be
\* read is skipped
RECURSIVE Pushed(_, _, _, _)
Pushed(st, lost, repo, order) ==
    IF order = <<>>
    THEN <<>>
    ELSE LET name == Head(order)
         IN  (IF Readable(st, lost, Path(repo, "version.json", name, 0))
              THEN <<LoadVersion(st, lost, repo, name)>> ELSE <<>>)
             \o Pushed(st, lost, repo, Tail(order))

\* Array.prototype.sort((a, b) => a.versionNumber - b.versionNumber), which
\* is stable: v goes after the elements with a number up to its own
RECURSIVE InsertSorted(_, _)
InsertSorted(sorted, v) ==
    IF sorted = <<>> \/ sorted[Len(sorted)].versionNumber <= v.versionNumber
    THEN Append(sorted, v)
    ELSE Append(InsertSorted(SubSeq(sorted, 1, Len(sorted) - 1), v),
                sorted[Len(sorted)])

RECURSIVE SortByNumber(_)
SortByNumber(vs) ==
    IF vs = <<>> THEN <<>>
    ELSE InsertSorted(SortByNumber(SubSeq(vs, 1, Len(vs) - 1)), vs[Len(vs)])

\* loadVersions with one try/catch around the whole loop: an unreadable
\* version.json ends the load with no version at all
loadVersionsAllOrNothing(st, lost, repo, order) ==
    IF \E i \in 1..Len(order) :
            ~Readable(st, lost, Path(repo, "version.json", order[i], 0))
    THEN <<>>
    ELSE SortByNumber(Pushed(st, lost, repo, order))

\* loadVersions without its final sort
loadVersionsUnsorted(st, lost, repo, order) ==
    Pushed(st, lost, repo, order)

\* loadVersions(auth, repoFullName), the listing showing the directories in
\* the given order
loadVersions(st, lost, repo, order) ==
    SortByNumber(Pushed(st, lost, repo, order))

----------------------------------------------------------------------------
(* React *)

\* React re-renders: the closures of createVersion and of the panels now
\* hold the current versions array.  Until then a caller that holds
\* createVersion, or a panel that holds a version, works on the array of the
\* last render
Render ==
    /\ rendered # versions
    /\ rendered' = versions
    /\ UNCHANGED <<opened, now, versions, diagrams, activeDiagramId, currentProject, inApp, processingStatus, pipes, builds,
                   store, repos>>
    /\ UNCHANGED <<device, storedAuth>>

----------------------------------------------------------------------------
(* App: GitHub and project handlers *)

\* createRepository and initializeProject succeed: a new repository whose
\* .architectai/project.json has latestVersionId null (0)
handleCreateProject ==
    /\ ~inApp
    /\ repos < MaxRepos
    /\ repos' = repos + 1
    /\ store' = PutFile(store, Path(repos + 1, "project.json", 0, 0),
                        Btoa([projectId |-> repos + 1, latestVersionId |-> 0]))
    /\ currentProject' = repos + 1
    /\ inApp' = TRUE
    /\ diagrams' = InitialDiagrams
    /\ activeDiagramId' = 0
    /\ UNCHANGED <<opened, now, versions, rendered, processingStatus,
                   pipes, builds>>
    /\ UNCHANGED <<device, storedAuth>>

handleCloseProject ==
    /\ inApp
    /\ currentProject # 0
    /\ currentProject' = 0
    /\ inApp' = FALSE
    /\ diagrams' = InitialDiagrams
    /\ activeDiagramId' = 0
    /\ UNCHANGED <<opened, now, versions, rendered, processingStatus,
                   pipes, builds, store, repos>>
    /\ UNCHANGED <<device, storedAuth>>

\* the sets of requests one loadProject call can lose
LostSets(st, repo) ==
    {lost \in SUBSET {q \in DOMAIN st :
                        q.repo = repo /\ q.kind \in {"diagram", "refined",
                                                     "version.json"}} :
        Cardinality(lost) <= MaxLost}

\* a loadProject that records the latest version it found in project.json
handleSelectProjectRecording(repo, order, lost) ==
    /\ ~inApp
    /\ githubAuth
    /\ repo \in 1..repos
    /\ Exists(store, Path(repo, "project.json", 0, 0))
    /\ order \in Orders(Dirs(store, repo))
    /\ lost \in LostSets(store, repo)
    /\ LET loaded == loadVersions(store, lost, repo, order)
           lastVersion == loaded[Len(loaded)]
       IN  /\ opened' = [repo |-> repo, order |-> order, lost |-> lost,
                         versions |-> loaded]
           /\ store' = PutFile(store, Path(repo, "project.json", 0, 0),
                    Btoa([projectId |-> repo,
                          latestVersionId |-> IF Len(loaded) > 0
                                              THEN lastVersion.id ELSE 0]))
           /\ IF Len(loaded) > 0 /\ Len(lastVersion.diagrams) > 0
              THEN /\ diagrams' = lastVersion.diagrams
                   /\ activeDiagramId' = lastVersion.diagrams[1].id
              ELSE UNCHANGED <<diagrams, activeDiagramId>>
    /\ currentProject' = repo
    /\ inApp' = TRUE
    /\ UNCHANGED <<now, versions, rendered, processingStatus, pipes, builds,
                   repos>>
    /\ UNCHANGED <<device, storedAuth>>

\* a project is picked in the project selector and loadProject succeeds:
\* the listing shows the version directories in some order and the requests
\* in lost fail.  The remote store is read as it is at one moment.  The
\* versions loadProject returns only give the live sketch its diagrams
handleSelectProject(repo, order, lost) ==
    /\ ~inApp
    /\ githubAuth
    /\ repo \in 1..repos
    /\ Exists(store, Path(repo, "project.json", 0, 0))
    /\ order \in Orders(Dirs(store, repo))
    /\ lost \in LostSets(store, repo)
    /\ LET loaded == loadVersions(store, lost, repo, order)
           lastVersion == loaded[Len(loaded)]
       IN  /\ opened' = [repo |-> repo, order |-> order, lost |-> lost,
                         versions |-> loaded]
           /\ IF Len(loaded) > 0 /\ Len(lastVersion.diagrams) > 0
              THEN /\ diagrams' = lastVersion.diagrams
                   /\ activeDiagramId' = lastVersion.diagrams[1].id
              ELSE UNCHANGED <<diagrams, activeDiagramId>>
    /\ currentProject' = repo
    /\ inApp' = TRUE
    /\ UNCHANGED <<now, versions, rendered, processingStatus, pipes, builds,
                   store, repos>>
    /\ UNCHANGED <<device, storedAuth>>

\* the page is loaded again once something is in the remote store: the
\* React state starts afresh, the running handlers are gone, and the
\* project kept by storeProject is restored without a loadProject call
Reload ==
    /\ \E repo \in 1..repos : Dirs(store, repo) # {}
    /\ versions # <<>>
    /\ versions' = <<>>
    /\ rendered' = <<>>
    /\ pipes' = <<>>
    /\ builds' = <<>>
    /\ diagrams' = InitialDiagrams
    /\ activeDiagramId' = 0
    /\ processingStatus' = NoStatus
    /\ opened' = NoOpened
    /\ inApp' = (currentProject # 0)
    /\ UNCHANGED <<now, currentProject, store, repos>>
    /\ UNCHANGED <<device, storedAuth>>

----------------------------------------------------------------------------
(* App: the live sketch *)

\* diagrams.map(d => d.id === activeDiagramId ? { ...d, dataUrl } : d)
WithDataUrl(ds, id, dataUrl) ==
    MapSeq(ds, LAMBDA d : IF d.id = id THEN [d EXCEPT !.dataUrl = dataUrl] ELSE d)

handleSketchChange(dataUrl) ==
    /\ inApp
    /\ diagrams' = WithDataUrl(diagrams, activeDiagramId, dataUrl)
    /\ UNCHANGED <<opened, now, versions, rendered, activeDiagramId, currentProject, inApp, processingStatus, pipes, builds,
                   store, repos>>
    /\ UNCHANGED <<device, storedAuth>>

----------------------------------------------------------------------------
(* processVersionInBackground, driven by App.handleUpdate *)

\* the filter left out: every image is passed on
ValidImagesUnfiltered(images) == images

\* images.filter(Boolean)
ValidImages(images) == SelectSeq(images, Truthy)

\* analyzeDiagramComponents results at time t: rawComponents mapped to specs
SpecLists ==
    {[i \in 1..n |-> [id |-> i, name |-> "c", description |-> "d",
                      userNotes |-> ""]] : n \in 0..MaxSpecs}

\* handleApiError called without the version id: nothing is recorded
handleApiErrorNoId(vs, msg, versionId) == vs

\* handleApiError(err, versionId): the ledger part
handleApiError(vs, msg, versionId) ==
    updateVersion(vs, versionId, [status |-> "error", error |-> msg])

\* the onProgress callback handleUpdate passes: the ledger part
onProgress(vs, id, status) == updateVersion(vs, id, [status |-> status])

\* the version handleUpdate hands to saveVersion
PipeSavedVersion(p) ==
    [p.newVersion EXCEPT !.refinedImage = p.refinedImage, !.specs = p.specs,
                         !.status = "complete", !.diagrams = p.validDiagrams]

\* the file kinds saveVersion writes
Kinds ==
    {"diagram", "refined", "version.json", "latest-specs", "build-plan",
     "project.json"}

\* createOrUpdateFile: `let sha: string | undefined`
NoSha == [kind \in Kinds |-> <<>>]

\* data.sha of a file of the given kind: the blob sha, a fingerprint of the
\* content
Sha(kind, content) == [k \in Kinds |-> IF k = kind THEN <<content>> ELSE <<>>]

\* the sha the contents API holds for a path now
CurrentSha(st, path) ==
    IF Exists(st, path) THEN Sha(path.kind, ShaOf(st, path)) ELSE NoSha

\* createOrUpdateFile before its GET
NoRead == [done |-> FALSE, sha |-> NoSha]

NewPipe(newVersion, validDiagrams, saveTo) ==
    [newVersion |-> newVersion, validDiagrams |-> validDiagrams,
     saveTo |-> saveTo, pc |-> "start", refinedImage |-> Null, specs |-> <<>>,
     emitted |-> <<>>, refineCalls |-> 0, analyzeCalls |-> 0, thrown |-> Null,
     failedIn |-> "none", saveResult |-> "none", log |-> <<>>,
     read |-> NoRead]

\* the "Update" button, dt milliseconds after the last reading of the clock:
\* createVersion, then processVersionInBackground up to its first await (the
\* refineSketch request) or its validation error
handleUpdate(dataUrl, dt) ==
    /\ inApp
    /\ Len(versions) < MaxVersions
    /\ now + dt <= MaxClock
    /\ now' = now + dt
    /\ LET updatedDiagrams == WithDataUrl(diagrams, activeDiagramId, dataUrl)
           validDiagrams == SelectSeq(updatedDiagrams, LAMBDA d : d.dataUrl # Null)
           newVersion == NewVersion(Len(rendered), validDiagrams, now + dt)
           images == MapSeq(validDiagrams, LAMBDA d : d.dataUrl)
           pipe == NewPipe(newVersion, validDiagrams,
                           IF githubAuth THEN currentProject ELSE 0)
       IN  /\ diagrams' = updatedDiagrams
           /\ IF validDiagrams = <<>>
              THEN UNCHANGED <<opened, versions, processingStatus, pipes>>
              ELSE IF ValidImages(images) = <<>>
              THEN /\ versions' = handleApiError(createVersion(versions, newVersion),
                                                 NoValidImages, newVersion.id)
                   /\ processingStatus' = "error"
                   /\ pipes' = Append(pipes, [pipe EXCEPT !.pc = "failed",
                                                          !.thrown = NoValidImages,
                                                          !.failedIn = "validate"])
              ELSE /\ versions' = onProgress(createVersion(versions, newVersion),
                                             newVersion.id, "refining")
                   /\ processingStatus' = "refining"
                   /\ pipes' = Append(pipes, [pipe EXCEPT !.pc = "refining",
                                                          !.emitted = <<"refining">>,
                                                          !.refineCalls = 1])
    /\ UNCHANGED <<opened, rendered, activeDiagramId, currentProject, inApp, builds,
                   store, repos>>
    /\ UNCHANGED <<device, storedAuth>>

\* refineSketch resolves: onProgress('specifying') and the analysis request
RefineOk(k, img) ==
    /\ pipes[k].pc = "refining"
    /\ versions' = onProgress(versions, pipes[k].newVersion.id, "specifying")
    /\ processingStatus' = "specifying"
    /\ pipes' = [pipes EXCEPT ![k].pc = "specifying",
                              ![k].refinedImage = img,
                              ![k].emitted = Append(@, "specifying"),
                              ![k].analyzeCalls = @ + 1]
    /\ UNCHANGED <<opened, now, rendered, diagrams, activeDiagramId, currentProject, inApp, builds, store, repos>>
    /\ UNCHANGED <<device, storedAuth>>

\* a pipeline that answers a rejected call by issuing the call again
StageFailRetry(k, msg) ==
    /\ pipes[k].pc \in {"refining", "specifying"}
    /\ pipes[k].refineCalls + pipes[k].analyzeCalls < 3
    /\ pipes' = [pipes EXCEPT
            ![k].thrown = msg,
            ![k].failedIn = pipes[k].pc,
            ![k].refineCalls = IF pipes[k].pc = "refining" THEN @ + 1 ELSE @,
            ![k].analyzeCalls = IF pipes[k].pc = "specifying" THEN @ + 1 ELSE @]
    /\ UNCHANGED <<opened, now, versions, rendered, diagrams, activeDiagramId,
                   currentProject, inApp, processingStatus, builds, store, repos>>
    /\ UNCHANGED <<device, storedAuth>>

\* a handleUpdate whose catch only logs the rejection
StageFailLogged(k, msg) ==
    /\ pipes[k].pc \in {"refining", "specifying"}
    /\ processingStatus' = "error"
    /\ pipes' = [pipes EXCEPT ![k].pc = "failed", ![k].thrown = msg,
                              ![k].failedIn = pipes[k].pc]
    /\ UNCHANGED <<opened, now, versions, rendered, diagrams, activeDiagramId,
                   currentProject, inApp, builds, store, repos>>
    /\ UNCHANGED <<device, storedAuth>>

\* refineSketch or analyzeDiagramComponents rejects: processVersionInBackground
\* rejects, and the catch of handleUpdate calls handleApiError
StageFail(k, msg) ==
    /\ pipes[k].pc \in {"refining", "specifying"}
    /\ versions' = handleApiError(versions, msg, pipes[k].newVersion.id)
    /\ processingStatus' = "error"
    /\ pipes' = [pipes EXCEPT ![k].pc = "failed", ![k].thrown = msg,
                              ![k].failedIn = pipes[k].pc]
    /\ UNCHANGED <<opened, now, rendered, diagrams, activeDiagramId, currentProject, inApp, builds, store, repos>>
    /\ UNCHANGED <<device, storedAuth>>

\* a handleUpdate whose .then callback does not merge the result: only
\* onProgress('complete') reaches the ledger
AnalyzeOkStatusOnly(k, specs) ==
    /\ pipes[k].pc = "specifying"
    /\ versions' = onProgress(versions, pipes[k].newVersion.id, "complete")
    /\ IF pipes[k].saveTo # 0
       THEN /\ processingStatus' = "complete"
            /\ pipes' = [pipes EXCEPT ![k].pc = "saving", ![k].specs = specs,
                                      ![k].emitted = Append(@, "complete")]
       ELSE /\ processingStatus' = NoStatus
            /\ pipes' = [pipes EXCEPT ![k].pc = "done", ![k].specs = specs,
                                      ![k].emitted = Append(@, "complete")]
    /\ UNCHANGED <<opened, now, rendered, diagrams, activeDiagramId, currentProject, inApp, builds, store, repos>>
    /\ UNCHANGED <<device, storedAuth>>

\* analyzeDiagramComponents resolves: onProgress('complete'), the result is
\* merged into the ledger, and saveVersion starts when a project is open
AnalyzeOk(k, specs) ==
    /\ pipes[k].pc = "specifying"
    /\ versions' = updateVersion(
                        onProgress(versions, pipes[k].newVersion.id, "complete"),
                        pipes[k].newVersion.id,
                        [refinedImage |-> pipes[k].refinedImage, specs |-> specs,
                         status |-> "complete"])
    /\ IF pipes[k].saveTo # 0
       THEN /\ processingStatus' = "complete"
            /\ pipes' = [pipes EXCEPT ![k].pc = "saving", ![k].specs = specs,
                                      ![k].emitted = Append(@, "complete")]
       ELSE /\ processingStatus' = NoStatus
            /\ pipes' = [pipes EXCEPT ![k].pc = "done", ![k].specs = specs,
                                      ![k].emitted = Append(@, "complete")]
    /\ UNCHANGED <<opened, now, rendered, diagrams, activeDiagramId, currentProject, inApp, builds, store, repos>>
    /\ UNCHANGED <<device, storedAuth>>

\* the saveVersion call of handleUpdate runs: its first j createOrUpdateFile
\* calls succeed; when j is not the last, the next one throws, saveVersion
\* rejects and handleUpdate logs it.  Either way setProcessingStatus(null)
PipeSave(k, j) ==
    /\ pipes[k].pc = "saving"
    /\ pipes[k].log = <<>>
    /\ LET version == PipeSavedVersion(pipes[k])
       IN  /\ j <= Len(SavePlan(version))
           /\ store' = SaveWrites(store, pipes[k].saveTo, version, j, now)
           /\ pipes' = [pipes EXCEPT
                    ![k].pc = "done",
                    ![k].saveResult = IF j = Len(SavePlan(version))
                                      THEN "saved" ELSE "failed"]
    /\ processingStatus' = NoStatus
    /\ UNCHANGED <<opened, now, versions, rendered, diagrams, activeDiagramId,
                   currentProject, inApp, builds, repos>>
    /\ UNCHANGED <<device, storedAuth>>

\* one createOrUpdateFile call of the saveVersion call of handleUpdate
\* succeeds, the next one in the order of saveVersion; log keeps the files
\* written so far.  After the last one, setProcessingStatus(null)
PipeWrite(k) ==
    /\ pipes[k].pc = "saving"
    /\ LET version == PipeSavedVersion(pipes[k])
           plan == SavePlan(version)
           n == Len(pipes[k].log) + 1
       IN  /\ n <= Len(plan)
           /\ store' = createOrUpdateFile(store,
                            SavePath(pipes[k].saveTo, version, plan[n]),
                            SaveContent(pipes[k].saveTo, version, plan[n], now))
           /\ pipes' = [pipes EXCEPT
                    ![k].log = Append(@, plan[n].kind),
                    ![k].pc = IF n = Len(plan) THEN "done" ELSE @,
                    ![k].saveResult = IF n = Len(plan) THEN "saved" ELSE @]
           /\ processingStatus' = IF n = Len(plan) THEN NoStatus
                                                   ELSE processingStatus
    /\ UNCHANGED <<opened, now, versions, rendered, diagrams, activeDiagramId,
                   currentProject, inApp, builds, repos>>
    /\ UNCHANGED <<device, storedAuth>>

\* a handleUpdate whose catch around saveVersion hands the error to
\* handleApiError with the id of the version
PipeSaveThrowRollback(k) ==
    /\ pipes[k].pc = "saving"
    /\ pipes' = [pipes EXCEPT ![k].pc = "done", ![k].saveResult = "failed"]
    /\ versions' = handleApiError(versions, <<"fail">>, pipes[k].newVersion.id)
    /\ processingStatus' = "error"
    /\ UNCHANGED <<opened, now, rendered, diagrams, activeDiagramId,
                   currentProject, inApp, builds, store, repos>>
    /\ UNCHANGED <<device, storedAuth>>

\* the next createOrUpdateFile call throws (the request fails, or the PUT is
\* refused because the file changed since the GET): saveVersion rejects,
\* handleUpdate logs it, setProcessingStatus(null)
PipeSaveThrow(k) ==
    /\ pipes[k].pc = "saving"
    /\ pipes' = [pipes EXCEPT ![k].pc = "done", ![k].saveResult = "failed"]
    /\ processingStatus' = NoStatus
    /\ UNCHANGED <<opened, now, versions, rendered, diagrams, activeDiagramId,
                   currentProject, inApp, builds, store, repos>>
    /\ UNCHANGED <<device, storedAuth>>

\* the createOrUpdateFile call the saveVersion of invocation k is in
PipeCall(k) ==
    LET version == PipeSavedVersion(pipes[k])
        w == SavePlan(version)[Len(pipes[k].log) + 1]
    IN  [kind |-> w.kind,
         path |-> SavePath(pipes[k].saveTo, version, w),
         content |-> SaveContent(pipes[k].saveTo, version, w, now)]

\* createOrUpdateFile, first request: the GET of the path.  sha is data.sha
\* when the response is ok and stays undefined when the file is not there
\* or the request fails (ok = FALSE)
PipeGet(k, ok) ==
    /\ pipes[k].pc = "saving"
    /\ ~pipes[k].read.done
    /\ Len(pipes[k].log) < Len(SavePlan(PipeSavedVersion(pipes[k])))
    /\ pipes' = [pipes EXCEPT ![k].read =
                    [done |-> TRUE,
                     sha |-> IF ok THEN CurrentSha(store, PipeCall(k).path)
                                   ELSE NoSha]]
    /\ UNCHANGED <<opened, now, versions, rendered, diagrams, activeDiagramId,
                   currentProject, inApp, processingStatus, builds, store,
                   repos>>
    /\ UNCHANGED <<device, storedAuth>>

\* the contents API answers a PUT that carries sha: it creates the file when
\* the path is free and no sha came, replaces it when the sha is the one of
\* the file, and refuses anything else
PutAccepted(st, path, sha) == sha = CurrentSha(st, path)

\* a PUT that is retried with the sha of the file as it is now until it is
\* accepted
PipePutForce(k) ==
    /\ pipes[k].pc = "saving"
    /\ pipes[k].read.done
    /\ LET call == PipeCall(k)
           last == Len(pipes[k].log) + 1
                       = Len(SavePlan(PipeSavedVersion(pipes[k])))
       IN  /\ store' = PutFile(store, call.path, call.content)
           /\ pipes' = [pipes EXCEPT
                    ![k].log = Append(@, call.kind),
                    ![k].read = NoRead,
                    ![k].pc = IF last THEN "done" ELSE @,
                    ![k].saveResult = IF last THEN "saved" ELSE @]
           /\ processingStatus' = IF last THEN NoStatus ELSE processingStatus
    /\ UNCHANGED <<opened, now, versions, rendered, diagrams, activeDiagramId,
                   currentProject, inApp, builds, repos>>
    /\ UNCHANGED <<device, storedAuth>>

\* a saveVersion that catches the error of a refused PUT, logs it and goes on
\* with its next write
PipePutContinue(k) ==
    /\ pipes[k].pc = "saving"
    /\ pipes[k].read.done
    /\ LET call == PipeCall(k)
           last == Len(pipes[k].log) + 1
                       = Len(SavePlan(PipeSavedVersion(pipes[k])))
       IN  /\ store' = IF PutAccepted(store, call.path, pipes[k].read.sha)
                       THEN PutFile(store, call.path, call.content)
                       ELSE store
           /\ pipes' = [pipes EXCEPT
                    ![k].log = Append(@, call.kind),
                    ![k].read = NoRead,
                    ![k].pc = IF last THEN "done" ELSE @,
                    ![k].saveResult = IF last THEN "saved" ELSE @]
           /\ processingStatus' = IF last THEN NoStatus ELSE processingStatus
    /\ UNCHANGED <<opened, now, versions, rendered, diagrams, activeDiagramId,
                   currentProject, inApp, builds, repos>>
    /\ UNCHANGED <<device, storedAuth>>

\* createOrUpdateFile, second request: the PUT, with body.sha the sha its
\* own GET found.  When it is accepted the call returns and saveVersion goes
\* on (after the last call, setProcessingStatus(null)); when it is refused
\* createOrUpdateFile throws, saveVersion rejects and handleUpdate logs it
PipePut(k) ==
    /\ pipes[k].pc = "saving"
    /\ pipes[k].read.done
    /\ LET call == PipeCall(k)
           last == Len(pipes[k].log) + 1
                       = Len(SavePlan(PipeSavedVersion(pipes[k])))
       IN  IF PutAccepted(store, call.path, pipes[k].read.sha)
           THEN /\ store' = PutFile(store, call.path, call.content)
                /\ pipes' = [pipes EXCEPT
                        ![k].log = Append(@, call.kind),
                        ![k].read = NoRead,
                        ![k].pc = IF last THEN "done" ELSE @,
                        ![k].saveResult = IF last THEN "saved" ELSE @]
                /\ processingStatus' = IF last THEN NoStatus
                                               ELSE processingStatus
           ELSE /\ store' = store
                /\ pipes' = [pipes EXCEPT ![k].pc = "done",
                                          ![k].saveResult = "conflict"]
                /\ processingStatus' = NoStatus
    /\ UNCHANGED <<opened, now, versions, rendered, diagrams, activeDiagramId,
                   currentProject, inApp, builds, repos>>
    /\ UNCHANGED <<device, storedAuth>>

----------------------------------------------------------------------------
(* App.handleGenerateBuild and the history panel *)

\* generateBuildPlan: response.text || "Failed to generate plan."
PlanOf(text) == IF Truthy(text) THEN text ELSE <<"Failed to generate plan.">>

RemoveAt(s, b) == [i \in 1..(Len(s) - 1) |-> IF i < b THEN s[i] ELSE s[i + 1]]

\* the version handleGenerateBuild hands to saveVersion
BuildSavedVersion(b) == [b.version EXCEPT !.buildPlan = b.plan]

\* "Generate Build Plan" on a version the render shows as complete, or its
\* selection in the build view: no plan is cached on the rendered version,
\* so generateBuildPlan is requested
handleGenerateBuild(id) ==
    /\ inApp
    /\ Len(builds) < MaxBuilds
    /\ \E i \in 1..Len(rendered) :
            rendered[i].id = id /\ rendered[i].status = "complete"
    /\ LET version == FindById(rendered, id)
       IN  /\ Truthy(version.refinedImage)
           /\ ~Truthy(version.buildPlan)
           /\ builds' = Append(builds,
                    [version |-> version,
                     saveTo |-> IF githubAuth THEN currentProject ELSE 0,
                     pc |-> "generating", plan |-> Null, log |-> <<>>])
    /\ UNCHANGED <<opened, now, versions, rendered, diagrams, activeDiagramId,
                   currentProject, inApp, processingStatus, pipes,
                   store, repos>>
    /\ UNCHANGED <<device, storedAuth>>

\* generateBuildPlan resolves: the plan is cached on the version and
\* saveVersion starts when a project is open
BuildOk(b, text) ==
    /\ builds[b].pc = "generating"
    /\ versions' = updateVersion(versions, builds[b].version.id,
                                 [buildPlan |-> PlanOf(text)])
    /\ IF builds[b].saveTo # 0
       THEN builds' = [builds EXCEPT ![b].pc = "saving", ![b].plan = PlanOf(text)]
       ELSE builds' = RemoveAt(builds, b)
    /\ UNCHANGED <<opened, now, rendered, diagrams, activeDiagramId, currentProject, inApp, processingStatus, pipes, store, repos>>
    /\ UNCHANGED <<device, storedAuth>>

\* generateBuildPlan rejects: handleApiError(err) without a version id, and
\* setMode(AppMode.HISTORY)
BuildFail(b) ==
    /\ builds[b].pc = "generating"
    /\ builds' = RemoveAt(builds, b)
    /\ processingStatus' = "error"
    /\ inApp' = TRUE
    /\ UNCHANGED <<opened, now, versions, rendered, diagrams, activeDiagramId,
                   currentProject, pipes, store, repos>>
    /\ UNCHANGED <<device, storedAuth>>

\* the saveVersion call of handleGenerateBuild runs, as in PipeSave; a
\* failure is logged
BuildSave(b, j) ==
    /\ builds[b].pc = "saving"
    /\ builds[b].log = <<>>
    /\ LET version == BuildSavedVersion(builds[b])
       IN  /\ j <= Len(SavePlan(version))
           /\ store' = SaveWrites(store, builds[b].saveTo, version, j, now)
    /\ builds' = RemoveAt(builds, b)
    /\ UNCHANGED <<opened, now, versions, rendered, diagrams, activeDiagramId,
                   currentProject, inApp, processingStatus, pipes, repos>>
    /\ UNCHANGED <<device, storedAuth>>

\* one createOrUpdateFile call of the saveVersion call of handleGenerateBuild
\* succeeds, as in PipeWrite
BuildWrite(b) ==
    /\ builds[b].pc = "saving"
    /\ LET version == BuildSavedVersion(builds[b])
           plan == SavePlan(version)
           n == Len(builds[b].log) + 1
       IN  /\ n <= Len(plan)
           /\ store' = createOrUpdateFile(store,
                            SavePath(builds[b].saveTo, version, plan[n]),
                            SaveContent(builds[b].saveTo, version, plan[n], now))
           /\ builds' = IF n = Len(plan)
                         THEN RemoveAt(builds, b)
                         ELSE [builds EXCEPT ![b].log = Append(@, plan[n].kind)]
    /\ UNCHANGED <<opened, now, versions, rendered, diagrams, activeDiagramId,
                   currentProject, inApp, processingStatus, pipes, repos>>
    /\ UNCHANGED <<device, storedAuth>>

\* the next createOrUpdateFile call throws: handleGenerateBuild logs it
BuildSaveThrow(b) ==
    /\ builds[b].pc = "saving"
    /\ builds' = RemoveAt(builds, b)
    /\ UNCHANGED <<opened, now, versions, rendered, diagrams, activeDiagramId,
                   currentProject, inApp, processingStatus, pipes, store, repos>>
    /\ UNCHANGED <<device, storedAuth>>

\* selectedVersion.specs.map(s => s.id === specId ? { ...s, [field]: value } : s)
WithSpecField(specs, specId, field, value) ==
    MapSeq(specs, LAMBDA sp :
        IF sp.id = specId THEN [sp EXCEPT ![field] = value] ELSE sp)

\* an edit that writes the whole rendered version back:
\* updateVersion(selectedVersion.id, { ...selectedVersion, specs })
handleSpecUpdateWhole(id, specId, field, value) ==
    /\ inApp
    /\ HasId(rendered, id)
    /\ LET selectedVersion == FindById(rendered, id)
       IN  /\ \E sp \in Range(selectedVersion.specs) : sp.id = specId
           /\ versions' = updateVersion(versions, selectedVersion.id,
                    [selectedVersion EXCEPT
                        !.specs = WithSpecField(selectedVersion.specs, specId,
                                                field, value)])
    /\ UNCHANGED <<opened, now, rendered, diagrams, activeDiagramId, currentProject,
                   inApp, processingStatus, pipes, builds, store, repos>>
    /\ UNCHANGED <<device, storedAuth>>

\* a spec field of the selected version loses focus in the history panel
handleSpecUpdate(id, specId, field, value) ==
    /\ inApp
    /\ HasId(rendered, id)
    /\ LET selectedVersion == FindById(rendered, id)
       IN  /\ \E sp \in Range(selectedVersion.specs) : sp.id = specId
           /\ versions' = updateVersion(versions, selectedVersion.id,
                    [specs |-> WithSpecField(selectedVersion.specs, specId,
                                             field, value)])
    /\ UNCHANGED <<opened, now, rendered, diagrams, activeDiagramId, currentProject, inApp, processingStatus, pipes, builds,
                   store, repos>>
    /\ UNCHANGED <<device, storedAuth>>

----------------------------------------------------------------------------
(* Signing in: DeviceFlowDialog and completeDeviceFlow *)

appVars ==
    <<now, versions, rendered, diagrams, activeDiagramId, currentProject,
      inApp, processingStatus, pipes, builds, store, repos, opened>>

\* deviceFlow.interval, in seconds, as requestDeviceCode returns it
Intervals == {1, 5}

\* what pollForToken can resolve to: the three statuses of its type with
\* and without their optional fields, and a status the type does not list
PollResults ==
    {[status |-> "pending", accessToken |-> Null, interval |-> 0],
     [status |-> "slow_down", accessToken |-> Null, interval |-> 0],
     [status |-> "slow_down", accessToken |-> Null, interval |-> 10],
     [status |-> "complete", accessToken |-> <<"t">>, interval |-> 0],
     [status |-> "complete", accessToken |-> Null, interval |-> 0],
     [status |-> "complete", accessToken |-> <<>>, interval |-> 0],
     [status |-> "expired", accessToken |-> Null, interval |-> 0]}

\* data.login of the /user response
Logins == {"u"}

\* the LogOut button of the project selector
handleDisconnectGitHub ==
    /\ githubAuth
    /\ ~inApp
    /\ storedAuth' = Null
    /\ currentProject' = 0
    /\ inApp' = FALSE
    /\ UNCHANGED <<now, versions, rendered, diagrams, activeDiagramId,
                   processingStatus, pipes, builds, store, repos, opened,
                   device>>

\* "Connect GitHub": the dialog opens and its effect calls startDeviceFlow
handleConnectGitHub ==
    /\ ~githubAuth
    /\ ~device.open
    /\ device' = [device EXCEPT !.open = TRUE, !.step = "loading"]
    /\ UNCHANGED <<appVars, storedAuth>>

\* requestDeviceCode resolves
DeviceCodeOk(interval) ==
    /\ device.open
    /\ device.step = "loading"
    /\ device' = [device EXCEPT !.interval = interval, !.step = "code"]
    /\ UNCHANGED <<appVars, storedAuth>>

\* requestDeviceCode rejects
DeviceCodeFail ==
    /\ device.open
    /\ device.step = "loading"
    /\ device' = [device EXCEPT !.step = "error"]
    /\ UNCHANGED <<appVars, storedAuth>>

\* "Try Again" on the error step
startDeviceFlow ==
    /\ device.open
    /\ device.step = "error"
    /\ device' = [device EXCEPT !.step = "loading"]
    /\ UNCHANGED <<appVars, storedAuth>>

\* "Cancel", or a click on the backdrop, outside the polling step
handleClose ==
    /\ device.open
    /\ device.step \in {"code", "error"}
    /\ device' = [device EXCEPT !.open = FALSE, !.step = "loading",
                                !.interval = 0]
    /\ UNCHANGED <<appVars, storedAuth>>

\* handleOpenGitHub: startPolling calls completeDeviceFlow, which sleeps
\* pollInterval = interval * 1000 before its first request
startPolling ==
    /\ device.open
    /\ device.step = "code"
    /\ device.interval # 0
    /\ device' = [device EXCEPT !.step = "polling", !.pc = "sleeping",
                                !.pollInterval = device.interval * 1000,
                                !.results = <<>>, !.accessToken = Null]
    /\ UNCHANGED <<appVars, storedAuth>>

\* a completeDeviceFlow that stores the credential as soon as the token
\* arrives, before the user lookup
PollResultStoreEarly(r) ==
    /\ device.pc = "sleeping"
    /\ Len(device.results) < MaxPolls
    /\ device' =
          IF r.status = "pending"
          THEN [device EXCEPT !.results = Append(@, r)]
          ELSE IF r.status = "slow_down"
          THEN [device EXCEPT
                    !.results = Append(@, r),
                    !.pollInterval = (IF r.interval # 0 THEN r.interval
                                      ELSE device.interval + 5) * 1000]
          ELSE IF r.status = "complete" /\ Truthy(r.accessToken)
          THEN [device EXCEPT !.results = Append(@, r), !.pc = "user",
                              !.accessToken = r.accessToken]
          ELSE [device EXCEPT !.results = Append(@, r), !.pc = "thrown",
                              !.step = "error"]
    /\ storedAuth' = IF r.status = "complete" /\ Truthy(r.accessToken)
                     THEN Auth(r.accessToken, "")
                     ELSE storedAuth
    /\ UNCHANGED appVars

\* pollForToken resolves with r after the sleep: one turn of the loop of
\* completeDeviceFlow
PollResult(r) ==
    /\ device.pc = "sleeping"
    /\ Len(device.results) < MaxPolls
    /\ device' =
          IF r.status = "pending"
          THEN [device EXCEPT !.results = Append(@, r)]
          ELSE IF r.status = "slow_down"
          THEN [device EXCEPT
                    !.results = Append(@, r),
                    !.pollInterval = (IF r.interval # 0 THEN r.interval
                                      ELSE device.interval + 5) * 1000]
          ELSE IF r.status = "complete" /\ Truthy(r.accessToken)
          THEN [device EXCEPT !.results = Append(@, r), !.pc = "user",
                              !.accessToken = r.accessToken]
          ELSE [device EXCEPT !.results = Append(@, r), !.pc = "thrown",
                              !.step = "error"]
    /\ UNCHANGED <<appVars, storedAuth>>

\* pollForToken rejects: completeDeviceFlow rejects, startPolling shows the
\* error
PollThrow ==
    /\ device.pc = "sleeping"
    /\ device' = [device EXCEPT !.pc = "thrown", !.step = "error"]
    /\ UNCHANGED <<appVars, storedAuth>>

\* fetchGitHubUser resolves: storeAuth(auth) and return auth
UserOk(login) ==
    /\ device.pc = "user"
    /\ storedAuth' = Auth(device.accessToken, login)
    /\ device' = [device EXCEPT !.pc = "returned", !.step = "success"]
    /\ UNCHANGED appVars

\* fetchGitHubUser rejects: completeDeviceFlow rejects
UserFail ==
    /\ device.pc = "user"
    /\ device' = [device EXCEPT !.pc = "thrown", !.step = "error"]
    /\ UNCHANGED <<appVars, storedAuth>>

\* onSuccess(auth), 1500 ms after the success step: setGithubAuth(auth) and
\* the dialog closes
handleDeviceFlowSuccess ==
    /\ device.open
    /\ device.step = "success"
    /\ device' = [device EXCEPT !.open = FALSE]
    /\ UNCHANGED <<appVars, storedAuth>>

----------------------------------------------------------------------------

SpecIds == 1..MaxSpecs

\* milliseconds between two readings of Date.now()
Elapsed == {0, 1}

VersionIds == {versions[i].id : i \in 1..Len(versions)}

SpecFields == {"name", "description", "userNotes"}

\* the numbers of createOrUpdateFile calls a saveVersion call can get through
SaveSteps(version) == 0..Len(SavePlan(version))

Project ==
    \/ handleCreateProject
    \/ handleCloseProject

Sketch ==
    \E dataUrl \in DataUrls : handleSketchChange(dataUrl)

Update ==
    \E dataUrl \in DataUrls, dt \in Elapsed : handleUpdate(dataUrl, dt)

Pipeline ==
    \/ \E k \in 1..Len(pipes), img \in RefinedImages : RefineOk(k, img)
    \/ \E k \in 1..Len(pipes), msg \in ErrorMessages : StageFail(k, msg)
    \/ \E k \in 1..Len(pipes), specs \in SpecLists : AnalyzeOk(k, specs)
    \/ \E k \in 1..Len(pipes) :
          \E j \in SaveSteps(PipeSavedVersion(pipes[k])) : PipeSave(k, j)

Build ==
    \/ \E id \in VersionIds : handleGenerateBuild(id)
    \/ \E b \in 1..Len(builds), text \in PlanTexts : BuildOk(b, text)
    \/ \E b \in 1..Len(builds) : BuildFail(b)
    \/ \E b \in 1..Len(builds) :
          \E j \in SaveSteps(BuildSavedVersion(builds[b])) : BuildSave(b, j)

Edit ==
    \E id \in VersionIds, specId \in SpecIds, field \in SpecFields,
       value \in Texts : handleSpecUpdate(id, specId, field, value)

Open ==
    \/ \E repo \in 1..repos :
          \E order \in Orders(Dirs(store, repo)), lost \in LostSets(store, repo) :
              handleSelectProject(repo, order, lost)
    \/ Reload

\* the saves taken one createOrUpdateFile call at a time
Writes ==
    \/ \E k \in 1..Len(pipes) : PipeWrite(k)
    \/ \E k \in 1..Len(pipes) : PipeSaveThrow(k)
    \/ \E b \in 1..Len(builds) : BuildWrite(b)
    \/ \E b \in 1..Len(builds) : BuildSaveThrow(b)

\* the GitHub connection: disconnecting, the device-flow dialog and its
\* completeDeviceFlow call
SignIn ==
    \/ handleDisconnectGitHub
    \/ handleConnectGitHub
    \/ \E interval \in Intervals : DeviceCodeOk(interval)
    \/ DeviceCodeFail
    \/ startDeviceFlow
    \/ handleClose
    \/ startPolling
    \/ \E r \in PollResults : PollResult(r)
    \/ PollThrow
    \/ \E login \in Logins : UserOk(login)
    \/ UserFail
    \/ handleDeviceFlowSuccess

Next ==
    \/ Render
    \/ Project
    \/ Sketch
    \/ Update
    \/ Pipeline
    \/ Build
    \/ Edit
    \/ Open
    \/ Writes
    \/ SignIn

\* the whole program; the specifications below keep part of its actions and
\* inputs
Spec == Init /\ [][Next]_vars

\* the pipelines alone: no build plan is requested and no spec is edited
NextPipeline ==
    \/ Render
    \/ Project
    \/ Sketch
    \/ Update
    \/ Pipeline

SpecPipeline == Init /\ [][NextPipeline]_vars

\* the next step of handleUpdate invocation k: an external call (refineSketch,
\* analyzeDiagramComponents, the requests of saveVersion) returns or fails
PipeReturn(k) ==
    /\ k <= Len(pipes)
    /\ \/ \E img \in RefinedImages : RefineOk(k, img)
       \/ \E msg \in ErrorMessages : StageFail(k, msg)
       \/ \E specs \in SpecLists : AnalyzeOk(k, specs)
       \/ \E j \in SaveSteps(PipeSavedVersion(pipes[k])) : PipeSave(k, j)

\* every external call a pipeline waits for returns or fails in the end, and
\* its continuation runs
Responsive == \A k \in 1..MaxVersions : WF_vars(PipeReturn(k))

\* the pipelines of handleUpdate calls on the canvas as it is, with or
\* without an open project
NextLive ==
    \/ Render
    \/ handleCreateProject
    \/ Update
    \/ Pipeline

\* the pipelines with responsive external calls
SpecLive == Init /\ [][NextLive]_vars /\ Responsive

\* the ledger with the remote store out of reach: every saveVersion call
\* fails at its first request, the build-plan model answers with a text, and
\* the notes are the spec field edited; the project stays open
NextLedger ==
    \/ Render
    \/ handleCreateProject
    \/ Sketch
    \/ Update
    \/ \E k \in 1..Len(pipes), img \in RefinedImages : RefineOk(k, img)
    \/ \E k \in 1..Len(pipes), msg \in ErrorMessages : StageFail(k, msg)
    \/ \E k \in 1..Len(pipes), specs \in SpecLists : AnalyzeOk(k, specs)
    \/ \E k \in 1..Len(pipes) : PipeSave(k, 0)
    \/ \E id \in VersionIds : handleGenerateBuild(id)
    \/ \E b \in 1..Len(builds) : BuildOk(b, <<"plan">>)
    \/ \E b \in 1..Len(builds) : BuildFail(b)
    \/ \E b \in 1..Len(builds) : BuildSave(b, 0)
    \/ \E id \in VersionIds, specId \in SpecIds, value \in Texts :
          handleSpecUpdate(id, specId, "userNotes", value)

SpecLedger == Init /\ [][NextLedger]_vars

\* the build plans of a short ledger: every answer of the build-plan model,
\* every outcome of the saves; the notes are the spec field edited
NextBuild ==
    \/ Render
    \/ Project
    \/ (Len(versions) < MaxBuildVersions /\ Update)
    \/ Pipeline
    \/ Build
    \/ \E id \in VersionIds, specId \in SpecIds, value \in Texts :
          handleSpecUpdate(id, specId, "userNotes", value)

SpecBuild == Init /\ [][NextBuild]_vars

\* nothing was saved by an earlier page: handleUpdate is followed only until
\* the page is loaded again
FirstPage ==
    pipes # <<>> \/ \A repo \in 1..repos : Dirs(store, repo) = {}

\* the remote store under the pipelines: React renders before the next
\* handler runs, the saves go one createOrUpdateFile call at a time, and a
\* behaviour is followed up to its first loadProject call
NextStore ==
    \/ Render
    \/ /\ rendered = versions
       /\ opened = NoOpened
       /\ \/ Project
          \/ Open
          \/ (FirstPage /\ Update)
          \/ \E k \in 1..Len(pipes), img \in RefinedImages : RefineOk(k, img)
          \/ \E k \in 1..Len(pipes), msg \in ErrorMessages : StageFail(k, msg)
          \/ \E k \in 1..Len(pipes), specs \in SpecLists : AnalyzeOk(k, specs)
          \/ \E k \in 1..Len(pipes) : PipeWrite(k)
          \/ \E k \in 1..Len(pipes) : PipeSaveThrow(k)

SpecStore == Init /\ [][NextStore]_vars

\* projects that are closed, opened again and worked on after the page was
\* loaded again, with a short ledger on each page: React renders before the
\* next handler runs, every request of loadProject is answered, and
\* saveVersion runs as a whole, to its end or to a failing request
NextReopen ==
    \/ Render
    \/ /\ rendered = versions
       /\ \/ Project
          \/ \E repo \in 1..repos : \E order \in Orders(Dirs(store, repo)) :
                handleSelectProject(repo, order, {})
          \/ Reload
          \/ (Len(versions) < MaxBuildVersions /\ Update)
          \/ \E k \in 1..Len(pipes), img \in RefinedImages : RefineOk(k, img)
          \/ \E k \in 1..Len(pipes), msg \in ErrorMessages : StageFail(k, msg)
          \/ \E k \in 1..Len(pipes), specs \in SpecLists : AnalyzeOk(k, specs)
          \/ \E k \in 1..Len(pipes) :
                \E j \in SaveSteps(PipeSavedVersion(pipes[k])) : PipeSave(k, j)

SpecReopen == Init /\ [][NextReopen]_vars

\* the saves of two pipelines with every createOrUpdateFile call taken as
\* its two requests, so that calls on one path overlap
NextConflict ==
    \/ Render
    \/ /\ rendered = versions
       /\ \/ handleCreateProject
          \/ Update
          \/ \E k \in 1..Len(pipes), img \in RefinedImages : RefineOk(k, img)
          \/ \E k \in 1..Len(pipes), msg \in ErrorMessages : StageFail(k, msg)
          \/ \E k \in 1..Len(pipes), specs \in SpecLists : AnalyzeOk(k, specs)
          \/ \E k \in 1..Len(pipes), ok \in BOOLEAN : PipeGet(k, ok)
          \/ \E k \in 1..Len(pipes) : PipePut(k)

SpecConflict == Init /\ [][NextConflict]_vars

\* the saves of a short ledger, those of the build plans included, under the
\* same conditions
NextSave ==
    \/ Render
    \/ /\ rendered = versions
       /\ opened = NoOpened
       /\ \/ Project
          \/ Open
          \/ (FirstPage /\ Len(versions) < MaxBuildVersions /\ Update)
          \/ \E k \in 1..Len(pipes), img \in RefinedImages : RefineOk(k, img)
          \/ \E k \in 1..Len(pipes), msg \in ErrorMessages : StageFail(k, msg)
          \/ \E k \in 1..Len(pipes), specs \in SpecLists : AnalyzeOk(k, specs)
          \/ Build
          \/ Writes
          \/ \E id \in VersionIds, specId \in SpecIds, value \in Texts :
                handleSpecUpdate(id, specId, "userNotes", value)

SpecSave == Init /\ [][NextSave]_vars

\* the saves of two versions and of their build plans, each saveVersion call
\* run as a whole so that no two of them overlap: React renders before the
\* next handler runs, the project stays open and the build-plan model
\* answers with a text
NextResave ==
    \/ Render
    \/ /\ rendered = versions
       /\ \/ handleCreateProject
          \/ Update
          \/ \E k \in 1..Len(pipes), img \in RefinedImages : RefineOk(k, img)
          \/ \E k \in 1..Len(pipes), msg \in ErrorMessages : StageFail(k, msg)
          \/ \E k \in 1..Len(pipes), specs \in SpecLists : AnalyzeOk(k, specs)
          \/ \E k \in 1..Len(pipes) :
                \E j \in SaveSteps(PipeSavedVersion(pipes[k])) : PipeSave(k, j)
          \/ \E id \in VersionIds : handleGenerateBuild(id)
          \/ \E b \in 1..Len(builds) : BuildOk(b, <<"plan">>)
          \/ \E b \in 1..Len(builds) : BuildFail(b)
          \/ \E b \in 1..Len(builds) :
                \E j \in SaveSteps(BuildSavedVersion(builds[b])) : BuildSave(b, j)

SpecResave == Init /\ [][NextResave]_vars

\* signing out and in again on the project selector
NextDevice == SignIn

SpecDevice == Init /\ [][NextDevice]_vars

----------------------------------------------------------------------------
(* The version ledger: sequence numbers and immutable fields *)

\* pipes[k] is the handleUpdate invocation that created versions[k]
Created == 1..Len(versions)

\* C1: after any sequence of createVersion and updateVersion calls the k-th
\* created version carries sequence number k, so the numbers are exactly 1..N
C1_SequenceNumbers ==
    \A k \in Created : versions[k].versionNumber = k

\* C2: two createVersion calls made back to back on an empty ledger, with no
\* render in between, give the numbers 1 and 2
C2_BackToBack ==
    (Len(versions) >= 2 /\ rendered = <<>>)
        => <<versions[1].versionNumber, versions[2].versionNumber>> = <<1, 2>>

\* C3: the diagrams snapshot and the sequence number of a version never
\* change after its creation, whatever is done later (sketch edits, pipeline
\* patches, spec edits, build-plan caching); no version leaves the ledger
C3_SnapshotImmutable ==
    [][/\ Len(versions') >= Len(versions)
       /\ \A k \in Created :
             /\ versions'[k].diagrams = versions[k].diagrams
             /\ versions'[k].versionNumber = versions[k].versionNumber]_vars

\* C3 witness: a complete version with an edited spec and a cached build plan
\* whose snapshot differs from the live sketch
C3_Witness ==
    \E k \in Created :
        /\ versions[k].status = "complete"
        /\ Truthy(versions[k].buildPlan)
        /\ \E sp \in Range(versions[k].specs) : sp.userNotes = "x"
        /\ versions[k].diagrams # diagrams

----------------------------------------------------------------------------
(* The status of a version in the ledger *)

Terminal == {"complete", "error"}

\* the status changes the pipeline state machine allows
StatusSteps ==
    {<<"pending", "refining">>, <<"refining", "specifying">>,
     <<"specifying", "complete">>, <<"pending", "error">>,
     <<"refining", "error">>, <<"specifying", "error">>}

\* pipeline k takes a step
PipeStep(k) == k <= Len(pipes) /\ pipes'[k] # pipes[k]

\* C4: complete and error are terminal: once the status of a version is
\* complete or error, no later operation changes it
C4_TerminalStatus ==
    [][\A k \in Created :
          versions[k].status \in Terminal
              => versions'[k].status = versions[k].status]_vars

\* C5: the status of a version only moves pending -> refining -> specifying
\* -> complete one step at a time, or to error from a non-terminal status
C5_StatusSteps ==
    [][\A k \in Created :
          \/ versions'[k].status = versions[k].status
          \/ <<versions[k].status, versions'[k].status>> \in StatusSteps]_vars

\* C6: a ledger update issued by one pipeline changes only the version of
\* that pipeline: every other version is left as it was
C6_OwnVersionOnly ==
    [][\A k \in 1..Len(pipes) :
          PipeStep(k) => \A i \in Created \ {k} : versions'[i] = versions[i]]_vars

----------------------------------------------------------------------------
(* processVersionInBackground: validation and failures *)

\* the images handed to processVersionInBackground by invocation p
ImagesOf(p) == MapSeq(p.validDiagrams, LAMBDA d : d.dataUrl)

\* a run stopped by a failure: what it had done when the failure came
Stopped(p) ==
    /\ p.pc = "failed"
    /\ p.failedIn = "validate" =>
            /\ p.thrown = NoValidImages
            /\ p.refineCalls = 0 /\ p.analyzeCalls = 0
            /\ p.emitted = <<>>
    /\ p.failedIn = "refining" =>
            /\ p.refineCalls = 1 /\ p.analyzeCalls = 0
            /\ p.emitted = <<"refining">>
    /\ p.failedIn = "specifying" =>
            /\ p.refineCalls = 1 /\ p.analyzeCalls = 1
            /\ p.emitted = <<"refining", "specifying">>

\* C7: a run given no non-empty image fails with the validation error, calls
\* neither external capability and emits no transition, then or later
C7_ValidationError ==
    \A k \in 1..Len(pipes) :
        (\A img \in Range(ImagesOf(pipes[k])) : ~Truthy(img))
            => /\ pipes[k].pc = "failed"
               /\ pipes[k].failedIn = "validate"
               /\ pipes[k].thrown = NoValidImages
               /\ pipes[k].refineCalls = 0
               /\ pipes[k].analyzeCalls = 0
               /\ pipes[k].emitted = <<>>

\* C7 witness: a run was started on an empty image while another run, on a
\* drawn image, got through its refinement call
C7_Witness ==
    \E k, m \in 1..Len(pipes) :
        /\ ImagesOf(pipes[k]) = <<<<>>>>
        /\ pipes[m].pc = "specifying"

\* C8: the failure of either external call stops the run: the failed call is
\* not made again, no later capability is called, no later transition is
\* emitted, and the run does nothing afterwards
C8_FailureStops ==
    [][\A k \in 1..Len(pipes') :
          pipes'[k].thrown # Null
              => /\ Stopped(pipes'[k])
                 /\ (k <= Len(pipes) /\ pipes[k].thrown # Null)
                        => pipes'[k] = pipes[k]]_vars

\* C8 witness: one run failed in its refinement call, another in its
\* analysis call
C8_Witness ==
    \E k, m \in 1..Len(pipes) :
        /\ pipes[k].failedIn = "refining"
        /\ pipes[m].failedIn = "specifying"

\* C9, as stated: when the refinement call fails, the run emits an error
\* transition through its progress callback
C9_ErrorEmitted ==
    \A k \in 1..Len(pipes) :
        pipes[k].failedIn = "refining"
            => /\ pipes[k].emitted # <<>>
               /\ pipes[k].emitted[Len(pipes[k].emitted)] = "error"

\* C9, amended: when the refinement call fails, the run emits nothing more
\* through its progress callback (which never carries error) and rejects
\* with the failure; the catch of handleUpdate then records status error and
\* the message of the failure on the version, in the same step
C9_ErrorRecordedByCaller ==
    [][\A k \in 1..Len(pipes) :
          (pipes[k].pc = "refining" /\ pipes'[k].pc = "failed")
              => /\ pipes'[k].emitted = pipes[k].emitted
                 /\ "error" \notin Range(pipes'[k].emitted)
                 /\ pipes'[k].thrown \in ErrorMessages
                 /\ versions'[k].status = "error"
                 /\ versions'[k].error = pipes'[k].thrown
                 /\ processingStatus' = "error"]_vars

\* C9 witness: a run failed in its refinement call and its version carries
\* the message
C9_Witness ==
    \E k \in 1..Len(pipes) :
        /\ pipes[k].failedIn = "refining"
        /\ versions[k].status = "error"
        /\ versions[k].error = pipes[k].thrown

\* the files of version id in the remote store: versions/${id}/...
FilesOf(id) ==
    {path \in DOMAIN store :
        path.kind \in {"diagram", "refined", "version.json"} /\ path.vid = id}

\* C10: when the refinement stage of a version fails, the version ends with
\* status error, a null refined image and empty specs, and no file is ever
\* written for it
C10_RefinementFailure ==
    \A k \in 1..Len(pipes) :
        pipes[k].failedIn = "refining"
            => /\ versions[k].status = "error"
               /\ versions[k].refinedImage = Null
               /\ versions[k].specs = <<>>
               /\ FilesOf(versions[k].id) = {}

----------------------------------------------------------------------------
(* Failures of the external calls and the build plan *)

\* the versions a build-plan request is about
Owners(b) == {k \in Created : versions[k].id = builds[b].version.id}

\* C11: every failure of an external call (refinement, analysis, build
\* plan) is recorded on the owning version as status error with a message
C11_FailureRecorded ==
    [][/\ \A k \in 1..Len(pipes) :
             (pipes[k].pc \in {"refining", "specifying"} /\ pipes'[k].pc = "failed")
                 => /\ versions'[k].status = "error"
                    /\ versions'[k].error = pipes'[k].thrown
       /\ \A b \in 1..Len(builds) :
             BuildFail(b)
                 => \A k \in Owners(b) :
                        /\ versions'[k].status = "error"
                        /\ Truthy(versions'[k].error)]_vars

\* C12: only a successful build-plan result is cached: when the build-plan
\* call fails or answers with an empty text, the buildPlan of the version
\* stays as it was and no save of a build plan is started
C12_OnlySuccessCached ==
    [][\A b \in 1..Len(builds) :
          (BuildFail(b) \/ BuildOk(b, <<>>))
              => /\ \A k \in Created :
                        versions'[k].buildPlan = versions[k].buildPlan
                 /\ Len(builds') < Len(builds)]_vars

----------------------------------------------------------------------------
(* saveVersion and loadVersions *)

\* the image bytes of a version: those of its diagrams that have any, and
\* those of its refined image
DiagramBytes(v) ==
    MapSeq(SelectSeq(v.diagrams, LAMBDA d : Truthy(d.dataUrl)),
           LAMBDA d : StripDataUrl(d.dataUrl))

RefinedBytes(v) ==
    IF Truthy(v.refinedImage) THEN StripDataUrl(v.refinedImage) ELSE Null

\* loaded is version v as it was handed to saveVersion
SameAsSaved(loaded, v) ==
    /\ loaded.id = v.id
    /\ loaded.versionNumber = v.versionNumber
    /\ loaded.status = v.status
    /\ loaded.specs = v.specs
    /\ loaded.buildPlan = v.buildPlan
    /\ DiagramBytes(loaded) = DiagramBytes(v)
    /\ RefinedBytes(loaded) = RefinedBytes(v)

\* every loadVersions on store st, with no request lost, gives version v back
RoundTrip(st, repo, v) ==
    \A order \in Orders(Dirs(st, repo)) :
        \E loaded \in Range(loadVersions(st, {}, repo, order)) :
            SameAsSaved(loaded, v)

\* the saveVersion call of handleUpdate invocation k returns
PipeSaveDone(k) ==
    /\ pipes[k].pc = "saving"
    /\ k <= Len(pipes')
    /\ pipes'[k].saveResult = "saved"

\* the saveVersion call of handleGenerateBuild invocation b returns
BuildSaveDone(b) ==
    /\ builds[b].pc = "saving"
    /\ Len(builds[b].log) + 1 = Len(SavePlan(BuildSavedVersion(builds[b])))
    /\ BuildWrite(b)

\* C13: when a saveVersion call completes, loadVersions on the store gives
\* a version with the same id, sequence number, status, specs and build
\* plan as the one handed to saveVersion, with the same image bytes
C13_RoundTrip ==
    [][/\ \A k \in 1..Len(pipes) :
             PipeSaveDone(k)
                 => RoundTrip(store', pipes[k].saveTo, PipeSavedVersion(pipes[k]))
       /\ \A b \in 1..Len(builds) :
             BuildSaveDone(b)
                 => RoundTrip(store', builds[b].saveTo,
                              BuildSavedVersion(builds[b]))]_vars

----------------------------------------------------------------------------
(* Opening a project *)

\* the identities and sequence numbers of a list of versions, in its order
Entries(vs) ==
    MapSeq(vs, LAMBDA v : [id |-> v.id, versionNumber |-> v.versionNumber])

\* C14: once handleSelectProject has completed, the ledger the UI reads
\* holds exactly the versions loadVersions reconstructed, in the same
\* ascending order
C14_LedgerIsLoaded ==
    opened.repo # 0 => Entries(versions) = Entries(opened.versions)

\* what getLatestCompleteVersion returns when no version is complete
NoVersion ==
    [id |-> -1, versionNumber |-> 0, timestamp |-> 0, diagrams |-> <<>>,
     refinedImage |-> Null, specs |-> <<>>, buildPlan |-> Null,
     status |-> "undefined", error |-> Null]

\* versions.find(v => v.status === 'complete'), without the reverse
getFirstCompleteVersion(vs) ==
    LET complete == {k \in 1..Len(vs) : vs[k].status = "complete"}
    IN  IF complete = {} THEN NoVersion
        ELSE vs[CHOOSE k \in complete : \A j \in complete : k <= j]

\* [...versions].reverse().find(v => v.status === 'complete')
getLatestCompleteVersion(vs) ==
    LET complete == {k \in 1..Len(vs) : vs[k].status = "complete"}
    IN  IF complete = {} THEN NoVersion
        ELSE vs[CHOOSE k \in complete : \A j \in complete : j <= k]

\* the remote store of repo holds one version, saved to the end as
\* complete version 1: meta is its version.json
SavedFirstVersion(st, repo, meta) ==
    /\ Cardinality(Dirs(st, repo)) = 1
    /\ \E vid \in Dirs(st, repo) :
          /\ Exists(st, Path(repo, "version.json", vid, 0))
          /\ meta = st[Path(repo, "version.json", vid, 0)].base64
          /\ st[Path(repo, "project.json", 0, 0)].base64.latestVersionId = vid
    /\ meta.versionNumber = 1
    /\ meta.status = "complete"

\* the version.json records of the remote store
Metas(st) ==
    {st[q].base64 : q \in {q \in DOMAIN st : q.kind = "version.json"}}

\* C15: version 1 was created, completed and saved; the project is opened
\* again with every request answered and no other version in the ledger:
\* getLatestCompleteVersion gives a version numbered 1 with as many specs as
\* were saved
C15_ReopenLatest ==
    \A meta \in Metas(store) :
        /\ opened.repo # 0
        /\ opened.lost = {}
        /\ SavedFirstVersion(store, opened.repo, meta)
        /\ Len(versions) <= 1
        => LET latest == getLatestCompleteVersion(versions)
           IN  /\ latest.versionNumber = 1
               /\ Len(latest.specs) = Len(meta.specs)

----------------------------------------------------------------------------
(* loadVersions *)

\* the directories of repo whose version.json the load can read
ValidDirs(st, lost, repo) ==
    {name \in Dirs(st, repo) :
        Readable(st, lost, Path(repo, "version.json", name, 0))}

\* the version.json of directory name
MetaOf(st, repo, name) == getFileContent(st, Path(repo, "version.json", name, 0))

\* the versions a completed loadProject call returned for directory name
LoadedFrom(name) ==
    {i \in 1..Len(opened.versions) :
        opened.versions[i].id = MetaOf(store, opened.repo, name).id}

\* C16: the result of loadVersions has one version for each directory with
\* a readable version.json and nothing else: a directory whose version.json
\* is missing or unreadable gives no version and does not stop the others,
\* and a diagram file no version.json names is not loaded
C16_SkipsUnreadable ==
    opened.repo # 0 =>
        /\ \A name \in ValidDirs(store, opened.lost, opened.repo) :
              Cardinality(LoadedFrom(name)) = 1
        /\ Len(opened.versions)
              = Cardinality(ValidDirs(store, opened.lost, opened.repo))
        /\ \A i \in 1..Len(opened.versions) :
              \A d \in Range(opened.versions[i].diagrams) :
                  \E name \in ValidDirs(store, opened.lost, opened.repo) :
                      /\ MetaOf(store, opened.repo, name).id = opened.versions[i].id
                      /\ d.id \in Range(MetaOf(store, opened.repo, name).diagramFiles)

\* a load met a directory it had to skip and one it could read
C16_Witness ==
    /\ opened.repo # 0
    /\ ValidDirs(store, opened.lost, opened.repo) # {}
    /\ ValidDirs(store, opened.lost, opened.repo) # Dirs(store, opened.repo)
    /\ Len(opened.versions) = 1

\* the diagram files of directory name the load could fetch, in the order of
\* version.json
Fetched(st, lost, repo, name) ==
    SelectSeq(MetaOf(st, repo, name).diagramFiles,
              LAMBDA file : Readable(st, lost, Path(repo, "diagram", name, file)))

\* the refined image of directory name is flagged and the load could fetch it
RefinedFetched(st, lost, repo, name) ==
    /\ Truthy(MetaOf(st, repo, name).refinedFile)
    /\ Readable(st, lost, Path(repo, "refined", name, 0))

\* C17: a directory with a readable version.json gives a version whatever
\* happens to its image requests: the diagrams are those that could be
\* fetched, each with its payload, and the refined image is null when it
\* could not be fetched
C17_BestEffortPayloads ==
    opened.repo # 0 =>
        \A name \in ValidDirs(store, opened.lost, opened.repo) :
            \E i \in LoadedFrom(name) :
                LET v == opened.versions[i]
                IN  /\ MapSeq(v.diagrams, LAMBDA d : d.id)
                          = Fetched(store, opened.lost, opened.repo, name)
                    /\ \A d \in Range(v.diagrams) : d.dataUrl # Null
                    /\ RefinedFetched(store, opened.lost, opened.repo, name)
                          \/ v.refinedImage = Null
                    /\ v.status = MetaOf(store, opened.repo, name).status
                    /\ v.specs = MetaOf(store, opened.repo, name).specs

\* a load could not fetch a diagram named by a readable version.json
C17_Witness ==
    /\ opened.repo # 0
    /\ \E name \in ValidDirs(store, opened.lost, opened.repo) :
          /\ Fetched(store, opened.lost, opened.repo, name)
                # MetaOf(store, opened.repo, name).diagramFiles
          /\ LoadedFrom(name) # {}

\* a load could not fetch the refined image a readable version.json flags
C17_WitnessRefined ==
    /\ opened.repo # 0
    /\ \E name \in ValidDirs(store, opened.lost, opened.repo) :
          /\ Truthy(MetaOf(store, opened.repo, name).refinedFile)
          /\ ~RefinedFetched(store, opened.lost, opened.repo, name)
          /\ \E i \in LoadedFrom(name) : opened.versions[i].refinedImage = Null

\* C18: whatever the order of the directory listing, the versions
\* loadVersions returns are in ascending order of sequence number
C18_SortedResult ==
    opened.repo # 0 =>
        \A i, j \in 1..Len(opened.versions) :
            i < j => opened.versions[i].versionNumber
                        <= opened.versions[j].versionNumber

\* the listing showed version 2 before version 1
C18_Witness ==
    /\ opened.repo # 0
    /\ Len(opened.versions) = 2
    /\ opened.versions[1].versionNumber < opened.versions[2].versionNumber
    /\ Pushed(store, opened.lost, opened.repo, opened.order) # opened.versions

----------------------------------------------------------------------------
(* saveVersion: the order of its writes *)

\* the step of saveVersion that writes a file of the given kind
StepOf(kind) ==
    CASE kind = "diagram" -> 1
      [] kind = "refined" -> 2
      [] kind = "version.json" -> 3
      [] kind = "latest-specs" -> 4
      [] kind = "build-plan" -> 5
      [] kind = "project.json" -> 6

\* the writes of one saveVersion call, in the order they were made, go
\* through the steps in order; only the diagram step writes more than once
InOrder(log) ==
    \A i, j \in 1..Len(log) :
        i < j => \/ StepOf(log[i]) < StepOf(log[j])
                 \/ log[i] = "diagram" /\ log[j] = "diagram"

\* C19: the writes of every saveVersion call are made in the order diagrams,
\* refined image, version.json, latest-specs, build plan, project.json,
\* one after the other, and project.json is the write the call ends with
C19_WriteOrder ==
    /\ \A k \in 1..Len(pipes) :
          /\ InOrder(pipes[k].log)
          /\ ("project.json" \in Range(pipes[k].log))
                <=> (pipes[k].saveResult = "saved")
    /\ \A b \in 1..Len(builds) :
          /\ InOrder(builds[b].log)
          /\ "project.json" \notin Range(builds[b].log)

\* a saveVersion call has gone through the first five steps
C19_Witness ==
    \E b \in 1..Len(builds) :
        builds[b].log = <<"diagram", "refined", "version.json", "latest-specs",
                          "build-plan">>

----------------------------------------------------------------------------
(* The remote store *)

\* the files the version.json at path q names are in its directory
NamedFilesExist(st, q) ==
    LET versionMeta == getFileContent(st, q)
    IN  /\ \A file \in Range(versionMeta.diagramFiles) :
              Exists(st, Path(q.repo, "diagram", q.vid, file))
        /\ Truthy(versionMeta.refinedFile)
              => Exists(st, Path(q.repo, "refined", q.vid, 0))

\* C20: in every state of the remote store, whatever saves were aborted or
\* are still running, every diagram file a version.json names exists in the
\* directory of that version, and so does the refined image it flags
C20_NamedFilesExist ==
    \A q \in DOMAIN store :
        q.kind = "version.json" => NamedFilesExist(store, q)

\* one saveVersion call was aborted after some of its writes while another
\* one, past its version.json, is still running
C20_Witness ==
    \E k1, k2 \in 1..Len(pipes) :
        /\ pipes[k1].saveResult = "failed"
        /\ pipes[k1].log # <<>>
        /\ pipes[k2].pc = "saving"
        /\ "version.json" \in Range(pipes[k2].log)

----------------------------------------------------------------------------
(* Persistence failures and the ledger *)

\* the saveVersion call of handleUpdate invocation k rejects
PipeSaveFailed(k) ==
    /\ pipes[k].pc = "saving"
    /\ k <= Len(pipes')
    /\ pipes'[k].saveResult = "failed"

\* C21: when a saveVersion call fails, at whichever of its writes, the
\* ledger is left as it was: the version keeps its status, its refined image
\* and its specs (and the plan cached before a build-plan save)
C21_SaveFailureFrame ==
    [][/\ \A k \in 1..Len(pipes) : PipeSaveFailed(k) => versions' = versions
       /\ \A b \in 1..Len(builds) : BuildSaveThrow(b) => versions' = versions]_vars

\* a save failed after some of its writes and the version is complete, with
\* the refined image and the specs of the pipeline
C21_Witness ==
    \E k \in Created :
        /\ k <= Len(pipes)
        /\ pipes[k].saveResult = "failed"
        /\ pipes[k].log # <<>>
        /\ versions[k].status = "complete"
        /\ versions[k].refinedImage = pipes[k].refinedImage
        /\ Truthy(versions[k].refinedImage)
        /\ versions[k].specs = pipes[k].specs
        /\ versions[k].specs # <<>>

----------------------------------------------------------------------------
(* createOrUpdateFile: conflicts *)

\* the PUT of the createOrUpdateFile call of invocation k is answered
PutStep(k) ==
    /\ pipes[k].pc = "saving"
    /\ pipes[k].read.done
    /\ k <= Len(pipes')
    /\ ~pipes'[k].read.done \/ pipes'[k].pc = "done"

\* the file changed, or appeared, after the GET of the call of invocation k
Stale(k) == pipes[k].read.sha # CurrentSha(store, PipeCall(k).path)

\* the writes saveVersion has left when the call of invocation k is answered
Remaining(k) ==
    Len(SavePlan(PipeSavedVersion(pipes[k]))) - Len(pipes[k].log) - 1

\* C22: a write of saveVersion that is refused with a conflict does not end
\* the save: saveVersion goes on with the writes it has left
C22_ContinuesAfterConflict ==
    [][\A k \in 1..Len(pipes) :
          PutStep(k) /\ Stale(k) /\ Remaining(k) > 0
              => pipes'[k].pc = "saving"]_vars

\* C22, as the code has it: a write of saveVersion that is refused with a
\* conflict ends the save there, none of the writes it has left is made then
\* or later, and the ledger is not touched: the failure is only logged by the
\* caller
C22_ConflictAborts ==
    [][\A k \in 1..Len(pipes) :
          /\ PutStep(k) /\ Stale(k)
                => /\ pipes'[k].pc = "done"
                   /\ pipes'[k].saveResult = "conflict"
                   /\ pipes'[k].log = pipes[k].log
                   /\ store' = store
                   /\ versions' = versions
          /\ pipes[k].saveResult = "conflict" /\ k <= Len(pipes')
                => pipes'[k].log = pipes[k].log]_vars

\* a save ended by a conflict with writes left to make
C22_Witness ==
    \E k \in 1..Len(pipes) :
        /\ pipes[k].saveResult = "conflict"
        /\ Len(pipes[k].log) + 1 < Len(SavePlan(PipeSavedVersion(pipes[k])))

\* C23: the PUT of a createOrUpdateFile call carries the sha of its own GET;
\* when the file was written or created by another call since that GET, the
\* PUT is refused and the file keeps the content the other call gave it;
\* when it was not, the PUT puts the content of this call and no other file
\* changes
C23_NoLostUpdate ==
    [][\A k \in 1..Len(pipes) :
          PutStep(k) =>
              LET call == PipeCall(k)
              IN  IF Stale(k)
                  THEN /\ store' = store
                       /\ pipes'[k].saveResult = "conflict"
                  ELSE /\ store' = PutFile(store, call.path, call.content)
                       /\ pipes'[k].saveResult # "conflict"]_vars

\* a call was refused on a path that holds what the overlapping call wrote,
\* which is not what the refused call carried
C23_Witness ==
    \E k \in 1..Len(pipes) :
        /\ pipes[k].saveResult = "conflict"
        /\ Exists(store, PipeCall(k).path)
        /\ pipes[k].read.sha # NoSha
        /\ store[PipeCall(k).path] # PipeCall(k).content
        /\ \E j \in 1..Len(pipes) :
              /\ j # k
              /\ PipeCall(k).kind \in Range(pipes[j].log)

----------------------------------------------------------------------------
(* useVersionStore: createVersion and updateVersion on their own *)

\* ids to call updateVersion with: those the clock gave and one it never gave
ProbeIds == 0..(MaxClock + 1)

\* the updates the application calls updateVersion with
Patches ==
    <<[status |-> "refining"],
      [status |-> "error", error |-> <<"fail">>],
      [refinedImage |-> <<PngPrefix, "r">>, specs |-> <<>>, status |-> "complete"],
      [buildPlan |-> <<"plan">>]>>

\* C24: updateVersion with an id no version of the ledger has gives the
\* ledger back as it is, every version and the length, and is defined (it
\* does not throw)
C24_UnknownIdNoOp ==
    \A id \in ProbeIds, n \in 1..Len(Patches) :
        ~HasId(versions, id) => updateVersion(versions, id, Patches[n]) = versions

\* the ledger is full, its versions are in terminal states, and there still
\* are ids that match none of them
C24_Witness ==
    /\ Len(versions) = MaxVersions
    /\ \A i \in 1..Len(versions) : versions[i].status \in {"complete", "error"}
    /\ \E id \in ProbeIds :
          /\ ~HasId(versions, id)
          /\ updateVersion(versions, id, Patches[2]) = versions

\* the diagram lists createVersion is called with: the live sketch as it is
\* and as it would be with each payload
DiagramArgs ==
    {diagrams} \cup {WithDataUrl(diagrams, activeDiagramId, dataUrl) :
                        dataUrl \in DataUrls}

\* the ledger after createVersion(ds) at clock reading t
AfterCreate(ds, t) == createVersion(versions, NewVersion(Len(rendered), ds, t))

\* C25: createVersion appends one version at the end of the ledger, with
\* status pending, refined image null, no specs, no build plan and no error
\* message, and with the diagrams of its argument; the versions that were
\* there keep their place and their content
C25_CreateAppends ==
    \A ds \in DiagramArgs, t \in now..(now + 1) :
        LET after == AfterCreate(ds, t)
            new == after[Len(after)]
        IN  /\ Len(after) = Len(versions) + 1
            /\ new.status = "pending"
            /\ new.refinedImage = Null
            /\ new.specs = <<>>
            /\ new.buildPlan = Null
            /\ new.error = Null
            /\ new.diagrams = ds
            /\ \A i \in 1..Len(versions) : after[i] = versions[i]

\* createVersion on a ledger that has a finished version, with a sketch that
\* carries a payload
C25_Witness ==
    /\ versions # <<>>
    /\ versions[1].status = "complete"
    /\ Truthy(diagrams[1].dataUrl)
    /\ LET after == AfterCreate(diagrams, now)
       IN  /\ after[Len(after)].diagrams = diagrams
           /\ after[1] = versions[1]

----------------------------------------------------------------------------
(* The cached build plan *)

\* handleGenerateBuild goes past its cache check and requests
\* generateBuildPlan for the version with the given id
PlanRequested(id) ==
    /\ Len(builds') = Len(builds) + 1
    /\ builds'[Len(builds')].pc = "generating"
    /\ builds'[Len(builds')].version.id = id

\* C26: generateBuildPlan is never requested for a version on which the
\* ledger holds a cached build plan
C26_CachedPlanReused ==
    [][\A i \in 1..Len(versions) :
          Truthy(versions[i].buildPlan) => ~PlanRequested(versions[i].id)]_vars

----------------------------------------------------------------------------
(* Artifact fields are only filled in *)

\* version v2 has every artifact v1 has: a refined image, specs, a build plan
KeepsArtifacts(v1, v2) ==
    /\ Truthy(v1.refinedImage) => Truthy(v2.refinedImage)
    /\ v1.specs # <<>> => v2.specs # <<>>
    /\ Truthy(v1.buildPlan) => Truthy(v2.buildPlan)

\* C27: no operation on the ledger takes a refined image, a non-empty specs
\* list or a cached build plan away from a version
C27_MonotoneArtifacts ==
    [][\A i \in 1..Len(versions) :
          i <= Len(versions') => KeepsArtifacts(versions[i], versions'[i])]_vars

----------------------------------------------------------------------------
(* Sequence numbers across pages and projects *)

\* the version.json files of a repository
MetaPaths(st, repo) ==
    {q \in DOMAIN st : q.repo = repo /\ q.kind = "version.json"}

\* C28: in the remote store of a project no two version.json records carry
\* the same sequence number, whatever the versions created, saved, the
\* projects closed and opened and the pages loaded in between
C28_PersistedNumbersDistinct ==
    \A repo \in 1..repos :
        \A q1, q2 \in MetaPaths(store, repo) :
            q1 # q2 => getFileContent(store, q1).versionNumber
                          # getFileContent(store, q2).versionNumber

\* C29: a closed project leaves no version in the ledger: whenever no
\* project is open the ledger is empty
C29_LedgerEmptyWhenClosed ==
    currentProject = 0 => versions = <<>>

----------------------------------------------------------------------------
(* Editing the user notes *)

\* the place in the ledger of the version the history panel shows for an id
Selected(id) ==
    CHOOSE i \in 1..Len(versions) :
        versions[i].id = id /\ \A j \in 1..(i - 1) : versions[j].id # id

\* specs is the list before with the notes of spec specId set to value and
\* nothing else changed
OnlyNotesChanged(before, after, specId, value) ==
    /\ Len(after) = Len(before)
    /\ \A n \in 1..Len(before) :
          after[n] = IF before[n].id = specId
                     THEN [before[n] EXCEPT !.userNotes = value]
                     ELSE before[n]

\* C30: an edit of the user notes of a spec, also on a version in a terminal
\* state, sets the notes of that spec and changes nothing else: not the
\* status, sequence number, diagrams, refined image or other specs of the
\* version, and no other version
C30_NotesEditFrame ==
    [][\A id \in VersionIds, specId \in SpecIds, value \in Texts :
          handleSpecUpdate(id, specId, "userNotes", value) =>
              \A i \in 1..Len(versions) :
                  IF i = Selected(id)
                  THEN /\ versions'[i] = [versions[i] EXCEPT
                                            !.specs = versions'[i].specs]
                       /\ OnlyNotesChanged(versions[i].specs, versions'[i].specs,
                                           specId, value)
                  ELSE versions'[i] = versions[i]]_vars

----------------------------------------------------------------------------
(* useVersionStore: getLatestCompleteVersion *)

\* r is the complete version of vs closest to its end, none when vs has none
LatestCompleteOf(vs, r) ==
    IF \E k \in 1..Len(vs) : vs[k].status = "complete"
    THEN \E k \in 1..Len(vs) :
            /\ vs[k].status = "complete"
            /\ \A j \in (k + 1)..Len(vs) : vs[j].status # "complete"
            /\ r = vs[k]
    ELSE r = NoVersion

\* C31: on the ledger, as it is and as the last render holds it,
\* getLatestCompleteVersion gives the complete version closest to the end
\* and nothing when no version is complete
C31_LatestComplete ==
    /\ LatestCompleteOf(versions, getLatestCompleteVersion(versions))
    /\ LatestCompleteOf(rendered, getLatestCompleteVersion(rendered))

\* two complete versions that differ: the later one is returned
C31_Witness ==
    /\ Len(versions) = 2
    /\ versions[1].status = "complete"
    /\ versions[2].status = "complete"
    /\ versions[1] # versions[2]
    /\ getLatestCompleteVersion(versions) = versions[2]

\* no version is complete although the ledger is not empty
C31_WitnessNone ==
    /\ versions # <<>>
    /\ getLatestCompleteVersion(versions) = NoVersion

----------------------------------------------------------------------------
(* loadVersions, again *)

----------------------------------------------------------------------------
(* project.json: the latest version id *)

\* the version.json records of a repository
RepoMetas(st, repo) == {st[q].base64 : q \in MetaPaths(st, repo)}

\* metadata.latestVersionId of '.architectai/project.json'
LatestVersionId(st, repo) ==
    getFileContent(st, Path(repo, "project.json", 0, 0)).latestVersionId

\* project.json names the persisted version with the highest sequence number
LatestIsHighest(st, repo) ==
    \E m \in RepoMetas(st, repo) :
        /\ m.id = LatestVersionId(st, repo)
        /\ \A o \in RepoMetas(st, repo) : o.versionNumber <= m.versionNumber

\* the saveVersion call of handleUpdate invocation k runs to its end
PipeSaveWhole(k) ==
    PipeSave(k, Len(SavePlan(PipeSavedVersion(pipes[k]))))

\* the saveVersion call of handleGenerateBuild invocation b runs to its end
BuildSaveWhole(b) ==
    BuildSave(b, Len(SavePlan(BuildSavedVersion(builds[b]))))

\* C33: no two saveVersion calls overlap; after each saveVersion call that
\* ran to its end, the latest-version id of project.json is the id of the
\* persisted version with the highest sequence number, also after the
\* re-save of an older version that follows its build plan
C33_LatestIsHighest ==
    [][/\ \A k \in 1..Len(pipes) :
             PipeSaveWhole(k) => LatestIsHighest(store', pipes[k].saveTo)
       /\ \A b \in 1..Len(builds) :
             BuildSaveWhole(b) => LatestIsHighest(store', builds[b].saveTo)]_vars

----------------------------------------------------------------------------
(* Complete versions carry their refined image *)

\* what a complete version shows: `version.refinedImage` is a string
HasRefined(vs) ==
    \A i \in 1..Len(vs) :
        vs[i].status = "complete" => Truthy(vs[i].refinedImage)

\* C34: in every state of the ledger, and in every render of it, a version
\* with status complete has a refined image that is not null
C34_CompleteHasRefined == HasRefined(versions) /\ HasRefined(rendered)

\* a complete version is rendered while another one is still in its pipeline
C34_Witness ==
    /\ Len(rendered) = 2
    /\ rendered[1].status = "complete"
    /\ Truthy(rendered[1].refinedImage)
    /\ rendered[2].status = "specifying"
    /\ rendered[2].refinedImage = Null

----------------------------------------------------------------------------
(* Version ids *)

\* C35: the ids of the versions in the ledger are pairwise distinct, also
\* when two createVersion calls read the clock in the same millisecond
C35_DistinctIds ==
    \A i, j \in 1..Len(versions) :
        i # j => versions[i].id # versions[j].id

----------------------------------------------------------------------------
(* What saveVersion is called with *)

\* the handleUpdate invocation that created the version has passed
\* onProgress('complete')
PipelineCompleted(version) ==
    \A i \in 1..Len(pipes) :
        /\ pipes[i].newVersion.id = version.id
        /\ pipes[i].newVersion.versionNumber = version.versionNumber
        => pipes[i].pc \in {"saving", "done"}

\* C36: saveVersion is only called for a version whose pipeline completed:
\* every version.json in the store has status complete and names a refined
\* file, and no record of a version that is still pending, refining or
\* specifying is written
C36_OnlyCompleteSaved ==
    /\ \A meta \in Metas(store) :
          meta.status = "complete" /\ Truthy(meta.refinedFile)
    /\ \A k \in 1..Len(pipes) :
          pipes[k].pc = "saving" => PipelineCompleted(pipes[k].newVersion)
    /\ \A b \in 1..Len(builds) :
          builds[b].pc = "saving" => PipelineCompleted(builds[b].version)

----------------------------------------------------------------------------
(* Progress of the pipelines *)

Processing(v) == v.status \in {"pending", "refining", "specifying"}

Settled(v) == v.status \in {"complete", "error"}

\* C37: every external call returns or fails in the end; then every version
\* that was created reaches complete or error, whatever the interleaving:
\* none stays pending, refining or specifying forever
C37_EveryVersionSettles ==
    \A i \in 1..MaxVersions :
        (i <= Len(versions) /\ Processing(versions[i]))
            ~> (i <= Len(versions) /\ Settled(versions[i]))

\* two pipelines ran side by side and both versions are settled
C37_Witness ==
    /\ Len(versions) = 2
    /\ Settled(versions[1]) /\ Settled(versions[2])
    /\ versions[1].status # versions[2].status
    /\ \A k \in 1..2 : "specifying" \in Range(pipes[k].emitted)

----------------------------------------------------------------------------
(* The processing indicator *)

\* versionStore.isProcessing
isProcessing(vs) == \E i \in 1..Len(vs) : Processing(vs[i])

\* C38: with several pipelines in flight the processing indicator is not
\* null while some version is pending, refining or specifying: the
\* completion of one pipeline does not clear it while another one runs
C38_IndicatorWhileProcessing ==
    isProcessing(versions) => processingStatus # NoStatus

----------------------------------------------------------------------------
(* completeDeviceFlow *)

\* the last result pollForToken gave the running completeDeviceFlow call
LastResult == device.results[Len(device.results)]

TokenDelivered(r) == r.status = "complete" /\ Truthy(r.accessToken)

\* C39: completeDeviceFlow keeps polling while the result is pending or
\* slow_down, returns only after a complete result that carries an access
\* token and a successful user lookup, and throws on anything else; the
\* credential is written to local storage only on that successful return
C39_DeviceFlow ==
    [][/\ \A r \in PollResults :
             PollResult(r) =>
                 /\ r.status \in {"pending", "slow_down"}
                       => device'.pc = "sleeping"
                 /\ TokenDelivered(r) => device'.pc = "user"
                 /\ r.status \notin {"pending", "slow_down"} /\ ~TokenDelivered(r)
                       => device'.pc = "thrown"
       /\ device'.pc = "returned" /\ device.pc # "returned"
             => /\ device.pc = "user"
                /\ TokenDelivered(LastResult)
                /\ \A i \in 1..(Len(device.results) - 1) :
                      device.results[i].status \in {"pending", "slow_down"}
                /\ \E login \in Logins :
                      storedAuth' = Auth(LastResult.accessToken, login)
       /\ device.pc = "user" /\ device'.pc \notin {"user", "returned"}
             => device'.pc = "thrown"
       /\ storedAuth' # storedAuth /\ storedAuth' # Null
             => device.pc = "user" /\ device'.pc = "returned"]_vars

\* completeDeviceFlow returned after a pending and a slow_down result, and
\* the credential is stored
C39_Witness ==
    /\ device.pc = "returned"
    /\ Len(device.results) = 3
    /\ device.results[1].status = "pending"
    /\ device.results[2].status = "slow_down"
    /\ device.pollInterval = 10000
    /\ storedAuth = Auth(<<"t">>, "u")

\* completeDeviceFlow threw after the token arrived because the user lookup
\* failed, and no credential is stored
C39_WitnessThrown ==
    /\ device.pc = "thrown"
    /\ device.results # <<>>
    /\ TokenDelivered(LastResult)
    /\ storedAuth = Null

====
